---- MODULE Spec2Model ----
(***************************************************************************)
(* A model of the agent execution engine of infiAgent (MLA V3): the        *)
(* driver (start.py), the State Cleaner (core/state_cleaner.py), the Agent *)
(* Executor (core/agent_executor.py), the Tool Executor                    *)
(* (core/tool_executor.py), the per-agent actions file                     *)
(* (utils/conversation_storage.py) and the Context Builder's compression   *)
(* caches (core/context_builder.py).  core/hierarchy_manager.py is not     *)
(* part of the sources; its operations follow section 4.2 of the           *)
(* specification.                                                          *)
(*                                                                         *)
(* Persistent state (files): actions, context, stack.  Volatile state (the *)
(* driver process): proc, input, frames.  A crash loses the volatile state *)
(* and keeps the files as they are.                                        *)
(*                                                                         *)
(* Spec is one driver process at a time, with crashes and restarts.        *)
(* SpecWriters is two driver processes at once on one task.                *)
(* SpecLong is one run without crashes, long enough for the reminders.     *)
(* SpecChat is one run with the retry loop of the LLM client               *)
(* (services/llm_client.py) and the worker of the first chunk.             *)
(* SpecClean is restarts with either input and either agent as the root;   *)
(* SpecResume is restarts with the same input.                             *)
(***************************************************************************)
EXTENDS Naturals, Sequences, FiniteSets, TLC

\* ------------------------------------------------------------------ bounds

\* The turn limit of one run (self.max_turns, src/core/agent_executor.py:42,
\* is 10000000; the line before it reads it from the agent's configuration).
\* The model runs the same loop with a small limit.
max_turns == 3

\* Events of the environment in one behaviour: invocations of the driver
\* (start.py main) and turn decisions of the LLM, over all runs and agents.
MaxEvents == 4

\* Sub-agent calls that receive a fresh [call-<hex8>] suffix.
MaxUuid == 1

\* ------------------------------------------------------------------ values

UserInputs == {"T1", "T2"}

\* A task input is a text and the number of the [call-...] suffix appended
\* to it (0: no suffix).
TaskInput(text, uuid) == <<text, uuid>>

\* push_agent derives the agent id from the agent's name and task input
\* (the checkpoint of an agent is found again on resume).
AgentId(name, task_input) == [name |-> name, input |-> task_input]

\* parent = null
NoAgent == [name |-> "", input |-> <<"", 0>>]

RootName == "root_agent"
SubName == "sub_agent"

\* An agent of level 0 and an agent that has both kinds of agent as tools.
LeafName == "leaf_agent"
TeamName == "team_agent"

\* The agent library: type and level of every tool name, and the tools of
\* every agent.
ToolType(name) ==
    CASE name = "final_output" -> "final_output"
      [] name = "ext_tool" -> "tool_call_agent"
      [] name = SubName -> "llm_call_agent"
      [] name = RootName -> "llm_call_agent"
      [] name = LeafName -> "llm_call_agent"
      [] name = TeamName -> "llm_call_agent"
      [] OTHER -> ""

ToolLevel(name) ==
    CASE name = SubName -> 1
      [] name = RootName -> 2
      [] name = TeamName -> 2
      [] OTHER -> 0

AvailableTools(agent) ==
    CASE agent = RootName -> {"final_output", "ext_tool", SubName}
      [] agent = TeamName -> {"final_output", "ext_tool", SubName, LeafName}
      [] OTHER -> {"final_output", "ext_tool"}

ToolResult(status, output) ==
    [status |-> status, output |-> output, error_information |-> ""]

\* An error result: no output, the error text in error_information.
ToolError(text) ==
    [status |-> "error", output |-> "", error_information |-> text]

NoResult == ToolResult("", "")

ActionRecord(tool_name, arguments, result) ==
    [tool_name |-> tool_name, arguments |-> arguments, result |-> result]

ToolCall(id, name, arguments) ==
    [id |-> id, name |-> name, arguments |-> arguments]

\* str(error_result): the text an error pop stores as the final output.
ErrorText == "error_result"

\* ------------------------------------------------------------------ state

VARIABLES
    actions,    \* <task>_<agent_id>_actions.json, by agent id
    context,    \* <task>_context.json: current.* and history[]
    stack,      \* <task>_stack.json
    proc,       \* the driver process: its position in start.py main
    input,      \* args.user_input of the running driver
    runs,       \* driver invocations so far
    uuid_ctr,   \* [call-...] suffixes drawn so far
    chats,      \* turn decisions the LLM has given so far
    frames,     \* the executors being run, outermost first
    last_ret,   \* what the last run() that returned gave back
    writers,    \* the executors of driver processes running side by side
    issued,     \* what those executors have written so far (bookkeeping)
    client,     \* SimpleLLMClient.chat: where one call of it stands
    agent_name, \* args.agent_name of the running driver
    wire,       \* _chat_internal: the request sent and the answer parsed
    builder     \* ContextBuilder: the call tree being rendered

disk == <<actions, context, stack>>

\* Nothing written yet by any of the executors running side by side.
NoneIssued == [records |-> {}, thinking |-> "", digests |-> {}]

\* No call of SimpleLLMClient.chat under way.  retry_count,
\* type_fix_attempted and last_error are the locals of chat(); response is
\* what _chat_internal returned last; worker is the thread of the first
\* chunk; fixing tells the immediate retry of lines 224-227 from a counted
\* attempt; outcome and caller are bookkeeping, as are attempts and repairs
\* (the calls of _chat_internal from line 200 and from line 225) and slept
\* (the seconds of time.sleep before the attempt, line 187).
IdleClient ==
    [pc |-> "idle", retry_count |-> 0, type_fix_attempted |-> FALSE,
     last_error |-> "", response |-> "", worker |-> "none", fixing |-> FALSE,
     outcome |-> "", caller |-> "", latest_thinking |-> "",
     attempts |-> 0, repairs |-> 0, slept |-> 0]

\* No call of _chat_internal under way.  tool_list, tool_choice and
\* tools_config are what the call is given, keys, tools and choice the
\* request it sends, raw the arguments strings the stream has accumulated
\* by tool call, response what it returns.
IdleWire ==
    [pc |-> "idle", tool_list |-> {}, tool_choice |-> "", tools_config |-> {},
     keys |-> {}, tools |-> {}, choice |-> "", raw |-> <<>>,
     response |-> [status |-> "", tool_calls |-> <<>>]]

\* No call tree is being rendered.  hierarchy, agent_name and roots are the
\* current.hierarchy and current.agents_status handed in (children by
\* agent id, agent_name by agent id with "" for an id without a row, the
\* ids whose parent is null); nodes is the tree built, each node with the
\* node it hangs under; visited is the set of _build_agent_tree_json and
\* calls counts its invocations (bookkeeping).
IdleBuilder ==
    [pc |-> "idle", hierarchy |-> <<>>, agent_name |-> <<>>, roots |-> {},
     nodes |-> <<>>, visited |-> {}, calls |-> 0]

vars == <<actions, context, stack, proc, input, runs, uuid_ctr, chats, frames, last_ret,
          writers, issued, client, agent_name, wire, builder>>

\* ------------------------------------------------------------------ files

\* The content of an actions file whose write was cut short: not parseable.
TornFile ==
    [valid |-> FALSE, action_history |-> <<>>, action_history_fact |-> <<>>,
     pending_tools |-> <<>>, latest_thinking |-> "", first_thinking_done |-> FALSE,
     tool_call_counter |-> 0, current_turn |-> 0]

\* save_actions writes action_history as the fact history when the fact
\* history handed in is empty (line 67), and [] for empty pending tools.
SavedFact(action_history, action_history_fact) ==
    IF action_history_fact # <<>> THEN action_history_fact ELSE action_history

\* The record _save_state hands to save_actions for frame f at turn t.
Checkpoint(f, t) ==
    [valid |-> TRUE,
     action_history |-> f.action_history,
     action_history_fact |-> SavedFact(f.action_history, f.action_history_fact),
     pending_tools |-> f.pending_tools,
     latest_thinking |-> f.latest_thinking,
     first_thinking_done |-> f.first_thinking_done,
     tool_call_counter |-> f.tool_call_counter,
     current_turn |-> t]

\* actions after _save_state of frame f at turn t
save_actions(f, t) == (f.id :> Checkpoint(f, t)) @@ actions

\* load_actions taking whatever file there is.
HasCheckpointAnyFile(id) == id \in DOMAIN actions

\* load_actions: absent and unparseable files both load as None.
HasCheckpoint(id) == id \in DOMAIN actions /\ actions[id].valid

\* ------------------------------------------------------------------ context

\* A dictionary without keys.
EmptyMap == [k \in {} |-> k]

EmptyContext ==
    [instructions |-> <<>>, hierarchy |-> EmptyMap, agents_status |-> EmptyMap,
     caches |-> {}, history |-> <<>>]

StackTop(stk) == IF stk = <<>> THEN NoAgent ELSE stk[Len(stk)]

AgentRow(status, final_output, latest_thinking) ==
    [status |-> status, final_output |-> final_output,
     latest_thinking |-> latest_thinking]

\* hierarchy.get(id, {}): a missing row reads as no parent, no children.
HierarchyRow(hierarchy, id) ==
    IF id \in DOMAIN hierarchy THEN hierarchy[id]
    ELSE [parent |-> NoAgent, children |-> <<>>]

InSeq(x, seq) == \E i \in 1..Len(seq) : seq[i] = x

\* start_new_instruction(text): appends to current.instructions.
start_new_instruction(ctx, text) ==
    [ctx EXCEPT !.instructions = Append(@, text)]

\* push_agent: parent is the stack top (or null); the agent is inserted
\* into hierarchy and agents_status with status running.
push_agent_context(ctx, stk, id) ==
    LET parent == StackTop(stk)
        own == (id :> [parent |-> parent,
                       children |-> HierarchyRow(ctx.hierarchy, id).children])
               @@ ctx.hierarchy
        linked == IF parent \in DOMAIN own /\ ~InSeq(id, own[parent].children)
                  THEN [own EXCEPT ![parent].children = Append(@, id)]
                  ELSE own
    IN  [ctx EXCEPT !.hierarchy = linked,
                    !.agents_status = (id :> AgentRow("running", "", "")) @@ @]

\* pop_agent: marks the agent completed with its final output.
pop_agent_context(ctx, id, final_output) ==
    IF id \in DOMAIN ctx.agents_status
    THEN [ctx EXCEPT !.agents_status[id].status = "completed",
                     !.agents_status[id].final_output = final_output]
    ELSE ctx

update_thinking(ctx, id, text) ==
    IF id \in DOMAIN ctx.agents_status
    THEN [ctx EXCEPT !.agents_status[id].latest_thinking = text]
    ELSE ctx

\* ------------------------------------------------------------------ cleaner

CompletedAgents(ctx) ==
    {a \in DOMAIN ctx.agents_status : ctx.agents_status[a].status = "completed"}

RunningAgents(ctx) == DOMAIN ctx.agents_status \ CompletedAgents(ctx)

\* Lines 47-55.
IsSameTask(ctx, new_user_input) ==
    /\ ctx.instructions # <<>>
    /\ new_user_input # ""
    /\ ctx.instructions[Len(ctx.instructions)] = new_user_input

\* Lines 76-83: the rows of completed agents keep only their completed
\* children.  completed_hierarchy holds the row objects of
\* current.hierarchy, so the rows of current.hierarchy change with it.
FilteredHierarchy(ctx) ==
    LET done == CompletedAgents(ctx) IN
    [a \in DOMAIN ctx.hierarchy |->
        IF a \in done
        THEN [ctx.hierarchy[a] EXCEPT
                !.children = SelectSeq(@, LAMBDA c : c \in done)]
        ELSE ctx.hierarchy[a]]

\* Lines 87-93: the running agents without a parent.
TopRunning(ctx) ==
    {a \in RunningAgents(ctx) : HierarchyRow(ctx.hierarchy, a).parent = NoAgent}

\* Line 111: what the final_output of an archived root begins with.
ArchiveMarker == "[archived]"

\* Lines 99-108 and 114-116: the final_outputs of the agents of kids, each
\* under the name of its agent.
RECURSIVE JoinOutputs(_, _)
JoinOutputs(ctx, kids) ==
    IF kids = {} THEN ""
    ELSE LET k == CHOOSE x \in kids : TRUE IN
         " <" \o k.name \o "> " \o ctx.agents_status[k].final_output
             \o JoinOutputs(ctx, kids \ {k})

\* Lines 95-118: the final_output synthesized for the archived root: the
\* marker, its latest_thinking, and the final_outputs of its completed
\* children that have one.
ArchiveOutput(ctx, top) ==
    LET done == CompletedAgents(ctx)
        hier == FilteredHierarchy(ctx)
        outs == {k \in done : /\ k \in DOMAIN hier
                              /\ hier[k].parent = top
                              /\ ctx.agents_status[k].final_output # ""}
    IN  ArchiveMarker \o " thinking: " \o ctx.agents_status[top].latest_thinking
            \o " children:"
            \o (IF outs = {} THEN " (none)" ELSE JoinOutputs(ctx, outs))

\* Lines 95-144: the history[] entry made of the archived root.
HistoryEntry(ctx, top) ==
    LET done == CompletedAgents(ctx)
        hier == FilteredHierarchy(ctx)
        kids == {k \in done : k \in DOMAIN hier /\ hier[k].parent = top}
        row  == [ctx.agents_status[top] EXCEPT
                    !.status = "completed",
                    !.final_output = ArchiveOutput(ctx, top)]
    IN  [instructions |-> ctx.instructions,
         agents_status |-> (top :> row) @@ [k \in kids |-> ctx.agents_status[k]],
         hierarchy |-> (top :> HierarchyRow(hier, top)) @@ [k \in kids |-> hier[k]]]

\* Lines 156-161 left out: the digests cached in current stay.
ClearedCachesKept(caches) == caches

\* Lines 156-161: _compressed_user_agent_history and every
\* _compressed_structured_call_info_<agent_id> are deleted from current.
ClearedCaches(caches) == {}

\* Line 152 left out: the agent rows of current stay.
EmptiedAgentsKept(agents_status) == agents_status

\* Line 152: context["current"]["agents_status"] = {}.
EmptiedAgents(agents_status) == EmptyMap

\* The Task Context clean_before_start saves (lines 36-172), for a context
\* whose agents_status is not empty.
CleanContext(ctx, new_user_input) ==
    LET same == IsSameTask(ctx, new_user_input)
        tops == TopRunning(ctx)
        archived ==
            IF RunningAgents(ctx) # {} /\ ~same /\ tops # {}
            THEN Append(ctx.history, HistoryEntry(ctx, CHOOSE a \in tops : TRUE))
            ELSE ctx.history
    IN  IF same
        THEN [ctx EXCEPT !.hierarchy = FilteredHierarchy(ctx)]
        ELSE [instructions |-> <<>>, hierarchy |-> EmptyMap,
              agents_status |-> EmptiedAgents(ctx.agents_status),
              caches |-> ClearedCaches(ctx.caches),
              history |-> archived]

\* clean_before_start as a whole (lines 32-175): the Task Context and the
\* stack it leaves.  Nothing is written, the stack included, when
\* current.agents_status is empty (lines 38-39).
CleanedState(ctx, stk, new_user_input) ==
    IF DOMAIN ctx.agents_status = {}
    THEN [context |-> ctx, stack |-> stk]
    ELSE [context |-> CleanContext(ctx, new_user_input), stack |-> <<>>]

\* ------------------------------------------------------------------ driver

\* No exit code (not a value a process can exit with): the driver has not
\* exited.
NoExit == 256

NoReturn ==
    [id |-> NoAgent, result |-> NoResult, path |-> "", llm |-> 0,
     resumed |-> <<>>, recovered |-> <<>>, exit_code |-> NoExit]

\* sys.exit(main()), start.py lines 318-319: main returns 0 or 1 after
\* run() (lines 296-299), 1 from the handler of an exception (line 315),
\* 130 from the handler of KeyboardInterrupt (line 304), and None from the
\* bare return of line 254, which sys.exit turns into 0.
ExitCode(returned) ==
    CASE returned = "None" -> 0
      [] returned = "0" -> 0
      [] returned = "130" -> 130
      [] OTHER -> 1

\* What main returns after run() has returned result or raised.
MainAfterRun(result, path) ==
    IF path = "uncaught" THEN "1"
    ELSE IF result.status = "success" THEN "0" ELSE "1"

Init ==
    /\ actions = EmptyMap
    /\ context = EmptyContext
    /\ stack = <<>>
    /\ proc = "idle"
    /\ input = ""
    /\ runs = 0
    /\ uuid_ctr = 0
    /\ chats = 0
    /\ frames = <<>>
    /\ last_ret = NoReturn
    /\ writers = EmptyMap
    /\ issued = NoneIssued
    /\ client = IdleClient
    /\ agent_name = ""
    /\ wire = IdleWire
    /\ builder = IdleBuilder

\* AgentExecutor.__init__ (lines 77-85) and the locals of run().
NewFrame(name, task_input) ==
    [id |-> AgentId(name, task_input), pc |-> "start",
     action_history |-> <<>>, action_history_fact |-> <<>>,
     pending_tools |-> <<>>, latest_thinking |-> "",
     first_thinking_done |-> FALSE, tool_call_counter |-> 0,
     turn |-> 0, max_tool_try |-> 0,
     calls |-> <<>>, cur |-> ToolCall(0, "", TaskInput("", 0)),
     tool_result |-> NoResult, queue |-> <<>>,
     \* bookkeeping of the run, read by the properties only
     llm |-> 0, resumed |-> <<>>, recovered |-> <<>>, loaded_final |-> FALSE,
     thinking_result |-> "", posts |-> 0]

\* start.py main is entered with --user_input u, with or without --force-new
\* (the first invocation with T1 and without --force-new: the texts are
\* interchangeable and there is no state to drop yet).
StartAs(u, force_new, name, events) ==
    /\ proc \in {"idle", "exited", "dead"}
    /\ runs + chats < events
    /\ runs = 0 => u = "T1" /\ ~force_new
    /\ runs' = runs + 1
    /\ input' = u
    /\ agent_name' = name
    /\ proc' = IF force_new THEN "force_new" ELSE "clean"
    /\ last_ret' = NoReturn
    /\ UNCHANGED <<actions, context, stack, uuid_ctr, chats, frames, writers, issued, client, wire, builder>>

Start(u, force_new) == StartAs(u, force_new, RootName, MaxEvents)

\* clean_before_start up to _save_context (lines 32-172): nothing is
\* written, the stack included, when current.agents_status is empty.
Clean ==
    /\ proc = "clean"
    /\ IF DOMAIN context.agents_status = {}
       THEN /\ proc' = "register"
            /\ UNCHANGED context
       ELSE /\ proc' = "save_stack"
            /\ context' = CleanedState(context, stack, input).context
    /\ UNCHANGED <<actions, stack, input, runs, uuid_ctr, chats, frames, last_ret, writers, issued, client, agent_name, wire, builder>>

\* --force-new (start.py lines 232-240): current is replaced.
ForceNew ==
    /\ proc = "force_new"
    /\ context' = [EmptyContext EXCEPT !.history = context.history]
    /\ proc' = "save_stack"
    /\ UNCHANGED <<actions, stack, input, runs, uuid_ctr, chats, frames, last_ret, writers, issued, client, agent_name, wire, builder>>

\* hierarchy_manager._save_stack([]) (state_cleaner.py line 175,
\* start.py line 241), the second file written.
SaveStack ==
    /\ proc = "save_stack"
    /\ stack' = <<>>
    /\ proc' = "register"
    /\ UNCHANGED <<actions, context, input, runs, uuid_ctr, chats, frames, last_ret, writers, issued, client, agent_name, wire, builder>>

\* start.py lines 246-276: the instruction is registered, the root
\* executor is created and run() is entered.
Register ==
    /\ proc = "register"
    /\ context' = start_new_instruction(context, input)
    /\ IF ToolType(agent_name) # "llm_call_agent"
       THEN /\ proc' = "exited"
            /\ frames' = <<>>
            /\ last_ret' = [NoReturn EXCEPT !.path = "not_an_agent",
                                            !.exit_code = ExitCode("None")]
       ELSE /\ frames' = <<NewFrame(agent_name, TaskInput(input, 0))>>
            /\ proc' = "run"
            /\ last_ret' = last_ret
    /\ UNCHANGED <<actions, stack, input, runs, uuid_ctr, chats, writers, issued, client, agent_name, wire, builder>>

\* The user interrupts the driver (start.py lines 302-304): the files stay
\* as they are and main returns 130.
Interrupt ==
    /\ proc \in {"save_stack", "register", "run"}
    /\ proc' = "exited"
    /\ frames' = <<>>
    /\ last_ret' = [NoReturn EXCEPT !.path = "interrupt", !.exit_code = ExitCode("130")]
    /\ UNCHANGED <<actions, context, stack, input, runs, uuid_ctr, chats, writers, issued, client, agent_name, wire, builder>>

\* The process is terminated between two steps: the files stay as they are.
Crash ==
    /\ proc \in {"save_stack", "register", "run"}
    /\ proc' = "dead"
    /\ frames' = <<>>
    /\ last_ret' = NoReturn
    /\ UNCHANGED <<actions, context, stack, input, runs, uuid_ctr, chats, writers, issued, client, agent_name, wire, builder>>

\* ------------------------------------------------------------------ executor

\* The periodic re-plan interval (self.thinking_interval,
\* src/core/agent_executor.py:84, is 10); the model runs the same test
\* with a small interval.
thinking_interval == 2

\* Reminders before a run without tool calls is given up (line 196).
max_no_tool == 5

Top == frames[Len(frames)]

Running == proc = "run" /\ frames # <<>>

WithTop(f) == [frames EXCEPT ![Len(frames)] = f]

IsFinal(record) == record.tool_name = "final_output"

HasFinal(history) == \E i \in 1..Len(history) : IsFinal(history[i])

\* The test of lines 115-116 left out: the run goes on whatever was loaded.
AlreadyCompletedNever(action_history_fact) == FALSE

\* Lines 115-116: the loaded fact history holds a final_output.
AlreadyCompleted(action_history_fact) == HasFinal(action_history_fact)

\* The test of line 123 left out: pending tools are not recovered.
NeedsRecoveryNever(pending_tools) == FALSE

\* Line 123: the loaded pending_tools is not empty.
NeedsRecovery(pending_tools) == pending_tools # <<>>

\* Lines 115-120: the result of the first final_output of the fact history.
FirstFinalResult(history) ==
    LET i == CHOOSE k \in 1..Len(history) :
                /\ IsFinal(history[k])
                /\ \A j \in 1..(k - 1) : ~IsFinal(history[j])
    IN  history[i].result

NoToolRecord ==
    ActionRecord("_no_tool_call", TaskInput("", 0), ToolResult("error", "no_tool_call"))

SummaryRecord ==
    ActionRecord("_historical_summary", TaskInput("", 0), ToolResult("success", "summary"))

\* run() returns result to its caller: the driver, or the tool call of the
\* parent (ToolExecutor._execute_sub_agent, lines 203-205).
ReturnFrom(f, result, path) ==
    /\ last_ret' = [id |-> f.id, result |-> result, path |-> path, llm |-> f.llm,
                    resumed |-> f.resumed, recovered |-> f.recovered,
                    exit_code |-> IF Len(frames) = 1
                                  THEN ExitCode(MainAfterRun(result, path))
                                  ELSE NoExit]
    /\ IF Len(frames) = 1
       THEN /\ frames' = <<>>
            /\ proc' = "exited"
       ELSE LET parent == frames[Len(frames) - 1] IN
            /\ frames' = [SubSeq(frames, 1, Len(frames) - 1) EXCEPT
                            ![Len(frames) - 1] =
                                [parent EXCEPT
                                    !.tool_result = result,
                                    !.pc = IF parent.pc = "wait" THEN "post"
                                           ELSE "recovered"]]
            /\ proc' = proc

\* pop_agent(id, final_output) followed by return: the popped id must be
\* the stack top, a mismatch is fatal.
PopAndReturn(f, ctx, final_output, result, path) ==
    IF stack # <<>> /\ StackTop(stack) = f.id
    THEN /\ context' = pop_agent_context(ctx, f.id, final_output)
         /\ stack' = SubSeq(stack, 1, Len(stack) - 1)
         /\ ReturnFrom(f, result, path)
    ELSE /\ context' = ctx
         /\ stack' = stack
         /\ proc' = "dead"
         /\ frames' = <<>>
         /\ last_ret' = NoReturn

\* Lines 329-332: the output of the error result the handler of the turn
\* loop builds; it embeds latest_thinking when there is one.
ErrorOutput(latest_thinking) ==
    IF latest_thinking # "" THEN "failed, progress: " \o latest_thinking
    ELSE "failed"

\* An exception leaves run() of frame f: nothing is popped.  The driver
\* reports it and exits (start.py lines 307-315); the tool call of a parent
\* returns an error result (tool_executor.py lines 207-215).
Uncaught(f) ==
    ReturnFrom(f, IF Len(frames) = 1 THEN NoResult ELSE ToolResult("error", ""),
               "uncaught")

\* Line 128: the initial plan is made at start_turn 0 only.
AfterLoad(f) ==
    IF f.turn = 0 /\ ~f.first_thinking_done THEN "plan" ELSE "turn"

\* Lines 97-125: push, checkpoint load, immediate return for a fact
\* history with a final_output (the frame is not popped).
RunStart ==
    /\ Running
    /\ Top.pc = "start"
    /\ LET f == Top IN
       /\ context' = push_agent_context(context, stack, f.id)
       /\ stack' = Append(stack, f.id)
       /\ IF HasCheckpoint(f.id)
          THEN LET d == actions[f.id]
                   g == [f EXCEPT
                           !.action_history = d.action_history,
                           !.action_history_fact = d.action_history_fact,
                           !.pending_tools = d.pending_tools,
                           !.latest_thinking = d.latest_thinking,
                           !.first_thinking_done = d.first_thinking_done,
                           !.tool_call_counter = d.tool_call_counter,
                           !.turn = d.current_turn + 1,
                           !.resumed = d.pending_tools,
                           !.loaded_final = HasFinal(d.action_history_fact)]
               IN  IF AlreadyCompleted(g.action_history_fact)
                   THEN ReturnFrom(g, FirstFinalResult(g.action_history_fact),
                                   "already_done")
                   ELSE /\ frames' = WithTop(
                               [g EXCEPT !.queue = g.pending_tools,
                                         !.pc = IF NeedsRecovery(g.pending_tools)
                                                THEN "recover" ELSE AfterLoad(g)])
                        /\ UNCHANGED <<proc, last_ret>>
          ELSE /\ frames' = WithTop([f EXCEPT !.pc = AfterLoad(f)])
               /\ UNCHANGED <<proc, last_ret>>
    /\ UNCHANGED <<actions, input, runs, uuid_ctr, chats, writers, issued, client, agent_name, wire, builder>>

\* ToolExecutor.execute for final_output (lines 93-99) and for an external
\* tool (_call_toolserver, lines 124-177): what the call can return.
\* What the tool server does with the one execute request: it answers
\* success, it answers failure with or without an error text, it answers
\* with an HTTP error status, or it cannot be reached.
ServerAnswers == {"ok", "failed", "no_text", "http_error", "unreachable"}

\* The answers the main specification draws from.
BasicAnswers == {"ok", "failed"}

\* _call_toolserver, lines 146-177, dropping the error text.
CallToolserverSilent(answer) ==
    CASE answer = "ok" -> ToolResult("success", "ok")
      [] OTHER -> ToolError("")

\* _call_toolserver, lines 146-177: the result built from the answer to
\* requests.post.  raise_for_status and a failed connection both end in
\* the except branch.
CallToolserver(answer) ==
    CASE answer = "ok" -> ToolResult("success", "ok")
      [] answer = "failed" -> ToolError("server_error")
      [] answer = "no_text" -> ToolError("unknown_error")
      [] OTHER -> ToolError("call_failed")

ExecResults(name, arguments, answers) ==
    CASE name = "final_output" -> {ToolResult("success", arguments[1])}
      [] ToolType(name) = "tool_call_agent" ->
            {CallToolserver(a) : a \in answers}
      [] OTHER -> {ToolError("unsupported")}

\* requests.post in _call_toolserver (line 151): the execute requests the
\* frame has sent, one more for an external tool.
Posted(f, name) ==
    IF name # "final_output" /\ ToolType(name) = "tool_call_agent"
    THEN [f EXCEPT !.posts = @ + 1]
    ELSE f

\* pending_tools.remove(p): the first equal element goes.
RemoveFirst(seq, x) ==
    IF ~InSeq(x, seq) THEN seq
    ELSE LET i == CHOOSE k \in 1..Len(seq) :
                    seq[k] = x /\ \A j \in 1..(k - 1) : seq[j] # x
         IN  SubSeq(seq, 1, i - 1) \o SubSeq(seq, i + 1, Len(seq))

\* _recover_pending_tools, lines 485-508, for the pending tool at the head
\* of the copied list, once its result r is there.  The caller (line 125)
\* does not read what the method returns.
RecoverStep(f, r) ==
    LET p == Head(f.queue)
        rec == ActionRecord(p.name, p.arguments, r)
        g == [f EXCEPT
                !.action_history_fact = Append(@, rec),
                !.action_history = Append(@, rec),
                !.pending_tools = RemoveFirst(@, p),
                !.recovered = Append(@, p),
                !.tool_result = NoResult,
                !.queue = Tail(@)]
    IN  IF p.name = "final_output"
        THEN [g EXCEPT !.queue = <<>>, !.pc = AfterLoad(g)]
        ELSE IF g.queue = <<>>
             THEN [g EXCEPT !.pending_tools = <<>>, !.pc = AfterLoad(g)]
             ELSE [g EXCEPT !.pc = "recover"]

\* _recover_pending_tools, lines 466-483: the next pending tool is executed
\* again; a sub-agent is run again by a new executor.
RecoverWith(answers) ==
    /\ Running
    /\ Top.pc = "recover"
    /\ LET f == Top
           p == Head(f.queue)
       IN  IF p.name # "final_output" /\ ToolType(p.name) = "llm_call_agent"
           THEN frames' = Append(WithTop([f EXCEPT !.pc = "recover_wait"]),
                                 NewFrame(p.name, p.arguments))
           ELSE \E r \in ExecResults(p.name, p.arguments, answers) :
                    frames' = WithTop(RecoverStep(Posted(f, p.name), r))
    /\ UNCHANGED <<actions, context, stack, proc, input, runs, uuid_ctr, chats, last_ret, writers, issued, client, agent_name, wire, builder>>

Recover == RecoverWith(BasicAnswers)

\* The sub-agent run again by the recovery has returned.
Recovered ==
    /\ Running
    /\ Top.pc = "recovered"
    /\ frames' = WithTop(RecoverStep(Top, Top.tool_result))
    /\ UNCHANGED <<actions, context, stack, proc, input, runs, uuid_ctr, chats, last_ret, writers, issued, client, agent_name, wire, builder>>

\* Lines 127-141: the initial plan; kept and checkpointed when the
\* Thinking call gave one.  These lines are outside the try of the turn
\* loop: an exception out of _save_state (line 135; build_context reads the
\* context and prompt files without a handler) leaves run().
Plan ==
    /\ Running
    /\ Top.pc = "plan"
    /\ \E t \in {"plan", ""}, raised \in BOOLEAN :
        LET f == [Top EXCEPT !.llm = @ + 1, !.pc = "turn"]
            g == [f EXCEPT !.latest_thinking = t, !.first_thinking_done = TRUE]
        IN  CASE t # "" /\ ~raised ->
                    /\ frames' = WithTop(g)
                    /\ context' = update_thinking(context, g.id, t)
                    /\ actions' = save_actions(g, 0)
                    /\ UNCHANGED <<proc, last_ret>>
              [] t # "" /\ raised ->
                    /\ context' = update_thinking(context, g.id, t)
                    /\ Uncaught(g)
                    /\ UNCHANGED actions
              [] t = "" /\ ~raised ->
                    /\ frames' = WithTop(f)
                    /\ UNCHANGED <<context, actions, proc, last_ret>>
              [] OTHER -> FALSE
    /\ UNCHANGED <<stack, input, runs, uuid_ctr, chats, writers, issued, client, agent_name, wire, builder>>

\* Lines 147-152 and 336-344: the loop test and the checkpoint at the start
\* of the turn; past the last turn the agent is popped with a timeout.
TurnWithin(turns) ==
    /\ Running
    /\ Top.pc = "turn"
    /\ LET f == Top IN
       IF f.turn < turns
       THEN /\ actions' = save_actions(f, f.turn)
            /\ frames' = WithTop([f EXCEPT !.pc = "chat"])
            /\ UNCHANGED <<context, stack, proc, last_ret>>
       ELSE /\ PopAndReturn(f, context, ErrorText,
                            ToolResult("error", "max_turns"), "max_turns")
            /\ UNCHANGED actions
    /\ UNCHANGED <<input, runs, uuid_ctr, chats, writers, issued, client, agent_name, wire, builder>>

Turn == TurnWithin(max_turns)

\* What _compress_action_history_if_needed (lines 434-462) can leave of the
\* render history h: h itself, or a summary of a prefix and the rest.
Compressed(h) ==
    {h} \cup {<<SummaryRecord>> \o SubSeq(h, k + 1, Len(h)) : k \in 2..Len(h)}

\* Line 196 with <= for <: one reminder more before the run is given up.
MayRemindOnceMore(max_tool_try) == max_tool_try <= max_no_tool

\* Line 196: max_tool_try < 5.
MayRemind(max_tool_try) == max_tool_try < max_no_tool

\* The tool calls one LLM response can carry for the agent of frame f, with
\* at most uuids suffixed sub-agent calls in one behaviour.
CallChoices(f, uuids) ==
    LET tools == AvailableTools(f.id.name) IN
    {<<ToolCall(1, "final_output", TaskInput(o, 0))>> : o \in {"", "done"}}
    \cup {<<ToolCall(1, "ext_tool", TaskInput("x", 0))>>}
    \cup {<<ToolCall(1, "ext_tool", TaskInput("x", 0)),
            ToolCall(2, "final_output", TaskInput("done", 0))>>}
    \cup (IF SubName \in tools /\ uuid_ctr < uuids
          THEN {<<ToolCall(1, SubName, TaskInput("sub", 0))>>}
          ELSE {})
    \cup (IF LeafName \in tools
          THEN {<<ToolCall(1, LeafName, TaskInput("leaf", 0))>>}
          ELSE {})

LlmResponses(f, uuids) ==
    {[kind |-> "fail", calls |-> <<>>], [kind |-> "raise", calls |-> <<>>],
     [kind |-> "none", calls |-> <<>>]}
    \cup {[kind |-> "calls", calls |-> c] : c \in CallChoices(f, uuids)}

\* Lines 154-230: compression, the LLM's turn decision, and what is done
\* with a failed response and with a response without tool calls; lines
\* 323-334: what is done when the chat call raises.
ChatWithin(events, kinds, uuids) ==
    /\ Running
    /\ Top.pc = "chat"
    /\ runs + chats < events
    /\ chats' = chats + 1
    /\ \E h \in Compressed(Top.action_history),
          resp \in {r \in LlmResponses(Top, uuids) : r.kind \in kinds} :
        LET f == [Top EXCEPT !.action_history = h, !.llm = @ + 1] IN
        CASE resp.kind = "fail" ->
                /\ PopAndReturn(f, context, ErrorText,
                                ToolResult("error", "llm_failed"), "llm_error")
                /\ UNCHANGED actions
          [] resp.kind = "raise" ->
                /\ PopAndReturn(f, context, ErrorText,
                                ToolResult("error", ErrorOutput(f.latest_thinking)),
                                "exception")
                /\ UNCHANGED actions
          [] resp.kind = "none" /\ MayRemind(f.max_tool_try) ->
                LET g == [f EXCEPT !.max_tool_try = @ + 1,
                                   !.action_history = Append(@, NoToolRecord)]
                IN  /\ actions' = save_actions(g, g.turn)
                    /\ frames' = WithTop([g EXCEPT !.turn = @ + 1, !.pc = "turn"])
                    /\ UNCHANGED <<context, stack, proc, last_ret>>
          [] resp.kind = "none" /\ ~MayRemind(f.max_tool_try) ->
                /\ \E t \in {"replan", ""} :
                      PopAndReturn([f EXCEPT !.llm = @ + 1], context, ErrorText,
                                   ToolResult("error", IF t # "" THEN t ELSE "refused"),
                                   "refused")
                /\ UNCHANGED actions
          [] resp.kind = "calls" ->
                /\ frames' = WithTop([f EXCEPT !.max_tool_try = 0,
                                               !.calls = resp.calls,
                                               !.pc = "call"])
                /\ UNCHANGED <<actions, context, stack, proc, last_ret>>
    /\ UNCHANGED <<input, runs, uuid_ctr, writers, issued, agent_name, wire, builder>>

\* What chat() gives the turn loop: a failed response, an exception, a
\* response without tool calls, a response with tool calls.
ResponseKinds == {"fail", "raise", "none", "calls"}

Chat == ChatWithin(MaxEvents, ResponseKinds, MaxUuid) /\ UNCHANGED client

\* Line 363 without the test of the level: every agent gets the suffix.
NeedsUuidAnyLevel(name) == ToolType(name) = "llm_call_agent"

\* _add_uuid_if_needed (lines 346-379).
NeedsUuid(name) == ToolType(name) = "llm_call_agent" /\ ToolLevel(name) # 0

\* Lines 244-255: the next tool call of the response gets its suffix, is
\* put on pending_tools and checkpointed.
Call ==
    /\ Running
    /\ Top.pc = "call"
    /\ LET f == Top
           c == Head(f.calls)
           args == IF NeedsUuid(c.name)
                   THEN TaskInput(c.arguments[1], uuid_ctr + 1)
                   ELSE c.arguments
           cur == ToolCall(c.id, c.name, args)
           g == [f EXCEPT !.cur = cur,
                          !.pending_tools = Append(@, cur),
                          !.pc = "exec", !.posts = 0]
       IN  /\ actions' = save_actions(g, g.turn)
           /\ frames' = WithTop(g)
           /\ uuid_ctr' = IF NeedsUuid(c.name) THEN uuid_ctr + 1 ELSE uuid_ctr
    /\ UNCHANGED <<context, stack, proc, input, runs, chats, last_ret, writers, issued, client, agent_name, wire, builder>>

\* Line 262 left out: the executed call stays in pending_tools.
WithoutCallKept(pending_tools, id) == pending_tools

\* Line 262: the executed call is removed from pending_tools by its id.
WithoutCall(pending_tools, id) == SelectSeq(pending_tools, LAMBDA t : t.id # id)

\* Lines 264-305: the result r of the current tool call is recorded in both
\* histories and checkpointed (the counter is incremented after the save);
\* a final_output pops the agent and returns.  What add_action (line 289)
\* keeps in the agent's row is not part of the model.
Post(f, r) ==
    LET c == f.cur
        rec == ActionRecord(c.name, c.arguments, r)
        g == [f EXCEPT
                !.pending_tools = WithoutCall(@, c.id),
                !.action_history_fact = Append(@, rec),
                !.action_history = Append(@, rec),
                !.tool_result = NoResult]
        k == [g EXCEPT !.tool_call_counter = @ + 1, !.calls = Tail(@)]
    IN  /\ actions' = save_actions(g, g.turn)
        /\ IF c.name = "final_output"
           THEN PopAndReturn(k, context, r.output, r, "final_output")
           ELSE /\ context' = context
                /\ frames' = WithTop(
                      [k EXCEPT
                         !.pc = IF k.calls # <<>> THEN "call"
                                ELSE IF k.tool_call_counter % thinking_interval = 0
                                     THEN "replan" ELSE "turn",
                         !.turn = IF k.calls = <<>>
                                     /\ k.tool_call_counter % thinking_interval # 0
                                  THEN @ + 1 ELSE @])
                /\ UNCHANGED <<stack, proc, last_ret>>

\* Lines 257-262: ToolExecutor.execute; a sub-agent is run by a new
\* executor (lines 179-205), anything else returns at once.
ExecWith(answers) ==
    /\ Running
    /\ Top.pc = "exec"
    /\ LET f == Top
           c == f.cur
       IN  IF c.name # "final_output" /\ ToolType(c.name) = "llm_call_agent"
           THEN /\ frames' = Append(WithTop([f EXCEPT !.pc = "wait"]),
                                    NewFrame(c.name, c.arguments))
                /\ UNCHANGED <<actions, context, stack, proc, last_ret>>
           ELSE \E r \in ExecResults(c.name, c.arguments, answers) :
                    Post(Posted(f, c.name), r)
    /\ UNCHANGED <<input, runs, uuid_ctr, chats, writers, issued, client, agent_name, wire, builder>>

Exec == ExecWith(BasicAnswers)

\* The sub-agent of the current tool call has returned.
Returned ==
    /\ Running
    /\ Top.pc = "post"
    /\ Post(Top, Top.tool_result)
    /\ UNCHANGED <<input, runs, uuid_ctr, chats, writers, issued, client, agent_name, wire, builder>>

\* Line 321 left out: the render history stays as it is after a re-plan.
AfterReplanKept(action_history) == action_history

\* Line 321: self.action_history = [].
AfterReplan(action_history) == <<>>

\* Lines 307-321: the periodic re-plan; a new plan is checkpointed and then
\* the render history is emptied.
Replan ==
    /\ Running
    /\ Top.pc = "replan"
    /\ \E t \in {"replan", ""} :
        LET f == [Top EXCEPT !.llm = @ + 1, !.thinking_result = t]
            g == [f EXCEPT !.latest_thinking = t]
        IN  IF t # ""
            THEN /\ context' = update_thinking(context, g.id, t)
                 /\ actions' = save_actions(g, g.turn)
                 /\ frames' = WithTop([g EXCEPT !.action_history = AfterReplan(@),
                                                !.turn = @ + 1, !.pc = "turn"])
            ELSE /\ frames' = WithTop([f EXCEPT !.turn = @ + 1, !.pc = "turn"])
                 /\ UNCHANGED <<context, actions>>
    /\ UNCHANGED <<stack, proc, input, runs, uuid_ctr, chats, last_ret, writers, issued, client, agent_name, wire, builder>>

\* save_actions (lines 76-77) opens the file for writing, which empties
\* it, and then dumps the record: the process is terminated in between.
WritesActions(f) ==
    \/ f.pc \in {"plan", "chat", "call", "post", "replan"}
    \/ f.pc = "turn" /\ f.turn < max_turns
    \/ f.pc = "exec" /\ ~(f.cur.name # "final_output"
                          /\ ToolType(f.cur.name) = "llm_call_agent")

TornSave ==
    /\ Running
    /\ WritesActions(Top)
    /\ actions' = (Top.id :> TornFile) @@ actions
    /\ proc' = "dead"
    /\ frames' = <<>>
    /\ last_ret' = NoReturn
    /\ UNCHANGED <<context, stack, input, runs, uuid_ctr, chats, writers, issued, client, agent_name, wire, builder>>

Next ==
    \/ \E u \in UserInputs, force_new \in BOOLEAN : Start(u, force_new)
    \/ Clean
    \/ ForceNew
    \/ SaveStack
    \/ Register
    \/ Crash
    \/ RunStart
    \/ Recover
    \/ Recovered
    \/ Plan
    \/ Turn
    \/ Chat
    \/ Call
    \/ Exec
    \/ Returned
    \/ Replan
    \/ TornSave

Spec == Init /\ [][Next]_vars

\* ------------------------------------------------------------------ one long run
\* One invocation of the driver on a fresh task, without crashes and
\* without sub-agent calls (no [call-...] suffix is left to draw), with turns
\* and LLM responses enough for the reminders of lines 193-227 to run out.

LongTurns == 6

LongEvents == 7

InitLong ==
    /\ actions = EmptyMap
    /\ context = EmptyContext
    /\ stack = <<>>
    /\ proc = "idle"
    /\ input = ""
    /\ runs = 0
    /\ uuid_ctr = MaxUuid
    /\ chats = 0
    /\ frames = <<>>
    /\ last_ret = NoReturn
    /\ writers = EmptyMap
    /\ issued = NoneIssued
    /\ client = IdleClient
    /\ agent_name = ""
    /\ wire = IdleWire
    /\ builder = IdleBuilder

StartOnce == runs = 0 /\ Start("T1", FALSE)

TurnLong == TurnWithin(LongTurns)

ChatLong == ChatWithin(LongEvents, ResponseKinds, MaxUuid) /\ UNCHANGED client

NextLong ==
    \/ StartOnce
    \/ Clean
    \/ Register
    \/ RunStart
    \/ Plan
    \/ TurnLong
    \/ ChatLong
    \/ Call
    \/ Exec
    \/ Replan

SpecLong == InitLong /\ [][NextLong]_vars

\* ------------------------------------------------------------------ client
\* SimpleLLMClient.chat (llm_client.py lines 149-253) and, inside one
\* attempt, the worker that opens the connection and reads the first chunk
\* (_chat_internal, lines 337-411 and 505-531), run for the turn loop of one
\* driver invocation without sub-agents.

\* Retries after the first attempt (max_retries, llm_client.py:158).
max_retries == 3

\* Turn limit and events (one driver invocation and the turn decisions of
\* the LLM) of the runs with the client.
ChatTurns == 2

ChatEvents == 3

\* What _chat_internal can return: a successful response, or an error
\* response whose error_information names a tool-argument type error the
\* hint can be built from ("type"), names one it cannot be built from
\* ("schema"), reports a timeout, or reports anything else.
Responses == {"success", "type", "schema", "timeout", "error"}

\* Line 212: the test on error_information.
IsTypeError(error_information) == error_information \in {"type", "schema"}

\* _generate_type_fix_hint (lines 582-640): empty when the tool name or the
\* parameter errors cannot be extracted.
TypeFixHint(error_information) ==
    IF error_information = "type" THEN "hint" ELSE ""

\* How the worker behaves: it delivers before first_chunk_timeout, it
\* delivers after it, it never returns.
Workers == {"fast", "slow", "stuck"}

\* Line 172 of agent_executor.py: the turn loop calls chat().
ClientCall ==
    /\ Running
    /\ Top.pc = "chat"
    /\ runs + chats < ChatEvents
    /\ client.pc \in {"idle", "delivered"}
    /\ client' = [IdleClient EXCEPT !.pc = "attempt",
                                    !.caller = Top.id,
                                    !.latest_thinking = Top.latest_thinking]
    /\ UNCHANGED <<actions, context, stack, proc, input, runs, uuid_ctr, chats,
                   frames, last_ret, writers, issued, agent_name, wire, builder>>

\* Lines 348-349: _chat_internal submits the first-chunk function to a
\* one-thread pool.
ClientSubmit ==
    /\ client.pc = "attempt"
    /\ \E w \in Workers :
          client' = [client EXCEPT
                        !.pc = "wait", !.worker = w,
                        !.attempts = IF client.fixing THEN @ ELSE @ + 1,
                        !.repairs = IF client.fixing THEN @ + 1 ELSE @]
    /\ UNCHANGED <<actions, context, stack, proc, input, runs, uuid_ctr, chats,
                   frames, last_ret, writers, issued, agent_name, wire, builder>>

\* Lines 350-395 and 408-531: the worker delivers in time, the with-block is
\* left with the worker finished, and the attempt ends with a response: the
\* stream is read to its end, or an exception of the stream is turned into
\* an error response.
ClientFirstChunk ==
    /\ client.pc = "wait"
    /\ client.worker = "fast"
    /\ \E r \in Responses :
          client' = [client EXCEPT !.pc = "respond", !.worker = "none",
                                   !.response = r]
    /\ UNCHANGED <<actions, context, stack, proc, input, runs, uuid_ctr, chats,
                   frames, last_ret, writers, issued, agent_name, wire, builder>>

\* Lines 352 and 397-398: future.result times out and TimeoutError is raised
\* inside the with-block of the pool; leaving the block runs
\* shutdown(wait=True), which joins the worker thread.
ClientDeadline ==
    /\ client.pc = "wait"
    /\ client.worker \in {"slow", "stuck"}
    /\ client' = [client EXCEPT !.pc = "shutdown"]
    /\ UNCHANGED <<actions, context, stack, proc, input, runs, uuid_ctr, chats,
                   frames, last_ret, writers, issued, agent_name, wire, builder>>

\* The worker returns, the join ends, and the TimeoutError reaches the
\* handler of lines 505-531, which returns a timeout error response.
ClientJoined ==
    /\ client.pc = "shutdown"
    /\ client.worker = "slow"
    /\ client' = [client EXCEPT !.pc = "respond", !.worker = "none",
                                !.response = "timeout"]
    /\ UNCHANGED <<actions, context, stack, proc, input, runs, uuid_ctr, chats,
                   frames, last_ret, writers, issued, agent_name, wire, builder>>

\* Lines 242-248: after a counted attempt has failed, the loop goes on while
\* retry_count < max_retries and raises otherwise.
Exhausted(c) ==
    IF c.retry_count < max_retries
    THEN [c EXCEPT !.pc = "attempt", !.retry_count = @ + 1,
                   !.slept = 2 * (c.retry_count + 1)]
    ELSE [c EXCEPT !.pc = "done", !.outcome = "raised"]

\* `continue` after the immediate retry has failed, ending the call.
ContinueEnds(c) == [c EXCEPT !.pc = "done", !.outcome = "returned"]

\* Lines 233-235 and 251-253: `continue` after the immediate retry has
\* failed: the next counted attempt if there is one, and otherwise the loop
\* is over and last_error is returned.
Continue(c) ==
    IF c.retry_count < max_retries
    THEN [c EXCEPT !.pc = "attempt", !.retry_count = @ + 1,
                   !.slept = 2 * (c.retry_count + 1)]
    ELSE [c EXCEPT !.pc = "done", !.outcome = "returned"]

\* Lines 204-248: what the retry loop does with the response of an attempt.
ClientRespond ==
    /\ client.pc = "respond"
    /\ LET r == client.response
           failed == [client EXCEPT !.last_error = r, !.fixing = FALSE]
       IN  client' =
             IF r = "success"
             THEN [client EXCEPT !.pc = "done", !.outcome = "success",
                                 !.fixing = FALSE]
             ELSE IF client.fixing
             THEN Continue(failed)
             ELSE IF /\ ~client.type_fix_attempted
                     /\ IsTypeError(r)
                     /\ TypeFixHint(r) # ""
             THEN [client EXCEPT !.pc = "attempt", !.type_fix_attempted = TRUE,
                                 !.last_error = r, !.fixing = TRUE, !.slept = 0]
             ELSE Exhausted(failed)
    /\ UNCHANGED <<actions, context, stack, proc, input, runs, uuid_ctr, chats,
                   frames, last_ret, writers, issued, agent_name, wire, builder>>

\* What the turn loop sees of the way chat() ended.
KindsOf(outcome) ==
    CASE outcome = "raised" -> {"raise"}
      [] outcome = "returned" -> {"fail"}
      [] OTHER -> {"none", "calls"}

\* Lines 180-230 and 323-334 of agent_executor.py: chat() has ended and the
\* turn loop goes on with what it gave.
ClientDeliver ==
    /\ client.pc = "done"
    /\ ChatWithin(ChatEvents, KindsOf(client.outcome), MaxUuid)
    /\ client' = [client EXCEPT !.pc = "delivered"]

TurnChat == TurnWithin(ChatTurns)

NextChat ==
    \/ StartOnce
    \/ Clean
    \/ Register
    \/ RunStart
    \/ Plan
    \/ TurnChat
    \/ ClientCall
    \/ ClientSubmit
    \/ ClientFirstChunk
    \/ ClientDeadline
    \/ ClientJoined
    \/ ClientRespond
    \/ ClientDeliver
    \/ Call
    \/ Exec
    \/ Replan

SpecChat == InitLong /\ [][NextChat]_vars

\* ------------------------------------------------------------------ writers
\* Two driver invocations on one task with the same input: both run the
\* root agent under the same agent id, each in a process of its own, on the
\* same actions file and the same Task Context.  No function of
\* utils/conversation_storage.py or core/context_builder.py takes a lock.

\* Tool calls each of the two executors makes.
MaxSaves == 1

Writers == {"w1", "w2"}

WriterId == AgentId(RootName, TaskInput("T1", 0))

HistoryDigestKey == "_compressed_user_agent_history"

CallInfoDigestKey == "_compressed_structured_call_info_root_agent"

\* The Task Context both drivers have left after start.py lines 228-265 and
\* hierarchy_manager.push_agent: an earlier task "T2" was interrupted and
\* archived, both drivers registered "T1" and pushed the root agent.
InterruptedContext ==
    push_agent_context(start_new_instruction(EmptyContext, "T2"), <<>>,
                       AgentId(RootName, TaskInput("T2", 0)))

WritersContext ==
    push_agent_context(
        start_new_instruction(
            start_new_instruction(CleanContext(InterruptedContext, "T1"), "T1"),
            "T1"),
        <<>>, WriterId)

InitWriters ==
    /\ actions = EmptyMap
    /\ context = WritersContext
    /\ stack = <<WriterId>>
    /\ proc = "run"
    /\ input = "T1"
    /\ runs = 2
    /\ uuid_ctr = 0
    /\ chats = 0
    /\ frames = <<>>
    /\ last_ret = NoReturn
    /\ writers = [w \in Writers |->
                    [f |-> [NewFrame(RootName, TaskInput("T1", 0)) EXCEPT !.pc = "plan"],
                     snapshot |-> EmptyContext, key |-> "", saves |-> 0]]
    /\ issued = NoneIssued
    /\ client = IdleClient
    /\ agent_name = ""
    /\ wire = IdleWire
    /\ builder = IdleBuilder

WritersIdle == UNCHANGED <<stack, proc, input, runs, uuid_ctr, chats, frames, last_ret, client, agent_name, wire, builder>>

\* agent_executor.py lines 127-135 in writer w: the initial plan is stored
\* in the Task Context and the state is saved.
WriterPlan(w) ==
    LET f == [writers[w].f EXCEPT !.latest_thinking = w,
                                  !.first_thinking_done = TRUE,
                                  !.pc = "build"]
    IN  /\ writers[w].f.pc = "plan"
        /\ context' = update_thinking(context, f.id, w)
        /\ actions' = save_actions(f, 0)
        /\ writers' = [writers EXCEPT ![w].f = f]
        /\ issued' = [issued EXCEPT !.thinking = w]
        /\ WritersIdle

\* context_builder.py lines 168-196 (key the history digest) and line 350
\* (key the call-info digest): the Task Context is read, no digest is cached
\* under the key, and the digest is asked of the LLM.
WriterReadContext(w, key) ==
    /\ writers[w].f.pc = "build"
    /\ key \notin context.caches
    /\ key = HistoryDigestKey => context.history # <<>>
    /\ key = CallInfoDigestKey => DOMAIN context.agents_status # {}
    /\ writers' = [writers EXCEPT ![w].f.pc = "digest",
                                  ![w].snapshot = context,
                                  ![w].key = key]
    /\ UNCHANGED <<actions, context, issued>>
    /\ WritersIdle

\* context_builder.py lines 198-199 and 351-352: the context that was read
\* is saved with the digest under the key.
WriterSaveDigest(w) ==
    /\ writers[w].f.pc = "digest"
    /\ context' = [writers[w].snapshot EXCEPT !.caches = @ \cup {writers[w].key}]
    /\ writers' = [writers EXCEPT ![w].f.pc = "build"]
    /\ issued' = [issued EXCEPT !.digests = @ \cup {writers[w].key}]
    /\ UNCHANGED actions
    /\ WritersIdle

\* agent_executor.py lines 244-255 in writer w: the tool call the LLM chose
\* is recorded as pending and the state is saved.
WriterCall(w) ==
    LET call == ToolCall(1, "ext_tool", TaskInput(w, 0))
        f == [writers[w].f EXCEPT !.pending_tools = <<call>>, !.cur = call,
                                  !.pc = "exec"]
    IN  /\ writers[w].f.pc = "build"
        /\ writers[w].saves < MaxSaves
        /\ actions' = save_actions(f, f.turn)
        /\ writers' = [writers EXCEPT ![w].f = f, ![w].saves = @ + 1]
        /\ UNCHANGED <<context, issued>>
        /\ WritersIdle

\* agent_executor.py lines 257-295 in writer w: the tool has run, its record
\* is appended to both histories, the pending entry is removed and the state
\* is saved.
WriterExec(w) ==
    LET g == writers[w].f
        r == ActionRecord(g.cur.name, g.cur.arguments, ToolResult("success", "ok"))
        f == [g EXCEPT !.action_history = Append(@, r),
                       !.action_history_fact = Append(@, r),
                       !.pending_tools = <<>>,
                       !.pc = "build"]
    IN  /\ g.pc = "exec"
        /\ actions' = save_actions(f, f.turn)
        /\ writers' = [writers EXCEPT ![w].f = [f EXCEPT !.tool_call_counter = @ + 1,
                                                         !.turn = @ + 1]]
        /\ issued' = [issued EXCEPT !.records = @ \cup {r}]
        /\ UNCHANGED context
        /\ WritersIdle

NextWriters ==
    \/ \E w \in Writers : WriterPlan(w)
    \/ \E w \in Writers, key \in {HistoryDigestKey, CallInfoDigestKey} :
            WriterReadContext(w, key)
    \/ \E w \in Writers : WriterSaveDigest(w)
    \/ \E w \in Writers : WriterCall(w)
    \/ \E w \in Writers : WriterExec(w)

SpecWriters == InitWriters /\ [][NextWriters]_vars


\* ------------------------------------------------------------------ restarts
\* Driver invocations one after the other on one task, with either input
\* and either agent as the root, crashes between any two steps, and the
\* digests of context_builder.py cached in the Task Context: the states
\* clean_before_start is called in.  The LLM always answers with tool
\* calls.

\* Driver invocations and turn decisions in one behaviour.
CleanEvents == 3

\* The agents start.py can be given as --agent_name (lines 252-257: any
\* LLM agent of the library).
RootNames == {RootName, SubName}

StartClean == \E u \in UserInputs, name \in RootNames : StartAs(u, FALSE, name, CleanEvents)

TurnClean == TurnWithin(max_turns)

ChatClean == ChatWithin(CleanEvents, {"calls"}, MaxUuid) /\ UNCHANGED client

\* build_context called by _save_state at the start of a turn
\* (agent_executor.py lines 152 and 336-344): a digest the LLM gave is
\* cached in the Task Context, the history digest when there is a history
\* (context_builder.py lines 168-199), the call-info digest of the root
\* agent when there are agents (lines 309-352); both only past a size
\* threshold.
SaveDigest ==
    /\ Running
    /\ Top.pc = "turn"
    /\ Top.turn < max_turns
    /\ \E key \in {HistoryDigestKey, CallInfoDigestKey} \ context.caches :
          /\ key = HistoryDigestKey => context.history # <<>>
          /\ key = CallInfoDigestKey =>
                /\ Top.id.name = RootName
                /\ DOMAIN context.agents_status # {}
          /\ context' = [context EXCEPT !.caches = @ \cup {key}]
    /\ UNCHANGED <<actions, stack, proc, input, runs, uuid_ctr, chats, frames,
                   last_ret, writers, issued, client, agent_name, wire, builder>>

NextClean ==
    \/ StartClean
    \/ Clean
    \/ SaveStack
    \/ Register
    \/ Crash
    \/ RunStart
    \/ Recover
    \/ Recovered
    \/ Plan
    \/ TurnClean
    \/ SaveDigest
    \/ ChatClean
    \/ Call
    \/ Exec
    \/ Returned
    \/ Replan

SpecClean == Init /\ [][NextClean]_vars

\* Driver invocations one after the other with the same input and the same
\* root agent, with crashes: the states a run is resumed in.

\* Driver invocations and turn decisions in one behaviour.
ResumeEvents == 5

StartResume == StartAs("T1", FALSE, RootName, ResumeEvents)

ChatResume == ChatWithin(ResumeEvents, {"calls"}, MaxUuid) /\ UNCHANGED client

NextResume ==
    \/ StartResume
    \/ Clean
    \/ SaveStack
    \/ Register
    \/ Crash
    \/ RunStart
    \/ Recover
    \/ Recovered
    \/ Plan
    \/ Turn
    \/ ChatResume
    \/ Call
    \/ Exec
    \/ Returned
    \/ Replan

SpecResume == Init /\ [][NextResume]_vars

\* ------------------------------------------------------------------ calls
\* Driver invocations with the same input on an agent that has a sub-agent
\* of level 1 and one of level 0 as tools, with crashes: calls of agents,
\* repeated and recovered.

\* Driver invocations and turn decisions in one behaviour.
CallsEvents == 4

\* Sub-agent calls that receive a suffix in one behaviour.
CallsUuid == 2

StartCalls == StartAs("T1", FALSE, TeamName, CallsEvents)

\* The tool server may answer in every way, in a run and in a recovery.
ExecCalls == ExecWith(ServerAnswers)

RecoverCalls == RecoverWith(ServerAnswers)

ChatCalls == ChatWithin(CallsEvents, {"calls"}, CallsUuid) /\ UNCHANGED client

NextCalls ==
    \/ StartCalls
    \/ Clean
    \/ SaveStack
    \/ Register
    \/ Crash
    \/ RunStart
    \/ RecoverCalls
    \/ Recovered
    \/ Plan
    \/ Turn
    \/ ChatCalls
    \/ Call
    \/ ExecCalls
    \/ Returned
    \/ Replan

SpecCalls == Init /\ [][NextCalls]_vars

\* ------------------------------------------------------------------ exit codes
\* Driver invocations with an agent or with an external tool as
\* --agent_name, and with interrupts by the user.

StartExit ==
    \E name \in {RootName, "ext_tool"} : StartAs("T1", FALSE, name, MaxEvents)

NextExit ==
    \/ StartExit
    \/ Clean
    \/ SaveStack
    \/ Register
    \/ Interrupt
    \/ RunStart
    \/ Recover
    \/ Recovered
    \/ Plan
    \/ Turn
    \/ Chat
    \/ Call
    \/ Exec
    \/ Returned
    \/ Replan

SpecExit == Init /\ [][NextExit]_vars

\* ------------------------------------------------------------------ one request

\* The tools a caller can name: one the configuration has, one it has not.
ListedTools == {"ext_tool", "no_such_tool"}

ToolChoices == {"none", "required", "auto"}

\* self.tools_config: not set, or the loaded configuration.
ToolsConfigs == {{}, {"ext_tool", "final_output"}}

\* _build_tools_definition, lines 819-837: a definition for every listed
\* tool the configuration has (the order of the list is left out).
BuildToolsDefinition(tools_config, tool_list) ==
    IF tools_config = {} THEN {} ELSE tool_list \cap tools_config

\* Lines 277-286: the parameters every request has.
BaseKeys ==
    {"model", "messages", "temperature", "api_key", "stream", "timeout",
     "stream_timeout"}

\* Lines 297-304: the tool parameters of the request.
ToolKeys(tools_definition, tool_choice) ==
    IF tools_definition # {}
    THEN {"tools", "parallel_tool_calls"}
            \cup (IF tool_choice = "required" THEN {"tool_choice"} ELSE {})
    ELSE {}

\* _chat_internal, lines 268-304: the request is built and sent.
WireSend ==
    /\ wire.pc = "idle"
    /\ \E tool_list \in SUBSET ListedTools, tool_choice \in ToolChoices,
          tools_config \in ToolsConfigs :
          LET tools_definition == BuildToolsDefinition(tools_config, tool_list)
          IN  wire' = [IdleWire EXCEPT
                          !.pc = "sent",
                          !.tool_list = tool_list,
                          !.tool_choice = tool_choice,
                          !.tools_config = tools_config,
                          !.keys = BaseKeys \cup ToolKeys(tools_definition, tool_choice),
                          !.tools = tools_definition,
                          !.choice = IF tools_definition # {} /\ tool_choice = "required"
                                     THEN "required" ELSE ""]
    /\ UNCHANGED <<actions, context, stack, proc, input, runs, uuid_ctr, chats,
                   frames, last_ret, writers, issued, client, agent_name, builder>>

\* The longest arguments string of a streamed tool call.
MaxArgLen == 3

\* The nesting the JSON parser follows before the interpreter stops it with
\* a RecursionError (the interpreter's limit, made small).
ParserDepth == 2

\* The characters of an arguments string: "v" is a scalar, or a member with
\* a scalar value inside an object; the keys of nested members are left out.
Chars == {"{", "}", "[", "]", ",", "v", " "}

RECURSIVE Strings(_)
Strings(n) ==
    IF n = 0 THEN {""}
    ELSE LET shorter == Strings(n - 1)
         IN  shorter \cup {t \o c : t \in shorter, c \in Chars}

ArgStrings == Strings(MaxArgLen)

At(text, i) == SubSeq(text, i, i)

Closer(c) == IF c = "{" THEN "}" ELSE "]"

\* json.loads(text): "ok", "invalid" (JSONDecodeError) or "too_deep"
\* (RecursionError), read from character i with the containers in open
\* still to be closed; st is what may come next.
RECURSIVE Scan(_, _, _, _)
Scan(text, i, open, st) ==
    IF i > Len(text) THEN (IF st = "done" THEN "ok" ELSE "invalid")
    ELSE LET c == At(text, i) IN
         CASE c = " " -> Scan(text, i + 1, open, st)
           [] c = "v" ->
                 IF st \in {"value", "first"}
                 THEN Scan(text, i + 1, open, IF open = "" THEN "done" ELSE "sep")
                 ELSE "invalid"
           [] c \in {"{", "["} ->
                 IF st \notin {"value", "first"} THEN "invalid"
                 ELSE IF Len(open) + 1 > ParserDepth THEN "too_deep"
                 ELSE Scan(text, i + 1, open \o c, "first")
           [] c \in {"}", "]"} ->
                 IF /\ st \in {"sep", "first"}
                    /\ open # ""
                    /\ c = Closer(At(open, Len(open)))
                 THEN LET rest == SubSeq(open, 1, Len(open) - 1)
                      IN  Scan(text, i + 1, rest, IF rest = "" THEN "done" ELSE "sep")
                 ELSE "invalid"
           [] OTHER ->
                 IF st = "sep" THEN Scan(text, i + 1, open, "value") ELSE "invalid"

JsonLoads(text) == Scan(text, 1, "", "value")

\* str.strip().
RECURSIVE Strip(_)
Strip(text) ==
    IF text = "" THEN ""
    ELSE IF At(text, 1) = " " THEN Strip(SubSeq(text, 2, Len(text)))
    ELSE IF At(text, Len(text)) = " " THEN Strip(SubSeq(text, 1, Len(text) - 1))
    ELSE text

\* str.endswith.
EndsWith(text, tail) ==
    Len(text) >= Len(tail) /\ SubSeq(text, Len(text) - Len(tail) + 1, Len(text)) = tail

\* str.count for one character.
Count(text, c) == Cardinality({i \in 1..Len(text) : At(text, i) = c})

\* c * n.
RECURSIVE Times(_, _)
Times(c, n) == IF n <= 0 THEN "" ELSE c \o Times(c, n - 1)

\* What _try_fix_json gives when no repair parses.
None == "None"

\* _try_fix_json, lines 542-580: a trailing comma before the closer goes,
\* the missing closing braces and then the missing closing brackets are
\* appended, and the text is parsed; any exception gives None.  A parsed
\* value is stood for by its text.
TryFixJson(json_str) ==
    IF json_str = "" \/ Strip(json_str) = "" THEN "{}"
    ELSE LET fixed0 == Strip(json_str)
             fixed1 == IF EndsWith(fixed0, ",}")
                       THEN SubSeq(fixed0, 1, Len(fixed0) - 2) \o "}" ELSE fixed0
             fixed2 == IF EndsWith(fixed1, ",]")
                       THEN SubSeq(fixed1, 1, Len(fixed1) - 2) \o "]" ELSE fixed1
             fixed3 == fixed2 \o Times("}", Count(fixed2, "{") - Count(fixed2, "}"))
             fixed4 == fixed3 \o Times("]", Count(fixed3, "[") - Count(fixed3, "]"))
         IN  IF JsonLoads(fixed4) = "ok" THEN fixed4 ELSE None

\* The text without its blanks.
RECURSIVE Squeeze(_)
Squeeze(text) ==
    IF text = "" THEN ""
    ELSE (IF At(text, 1) = " " THEN "" ELSE At(text, 1))
            \o Squeeze(SubSeq(text, 2, Len(text)))

\* `if args:` (line 479): None, an empty object and an empty array are not
\* true ("v" is a scalar that is).
Truthy(args) == args # None /\ Squeeze(args) \notin {"{}", "[]"}

\* Lines 472-483: the arguments of one accumulated tool call; raised tells
\* that an exception other than JSONDecodeError has left the loop.
ParseArguments(args_str) ==
    IF args_str = "" THEN [raised |-> FALSE, args |-> "{}"]
    ELSE LET parsed == JsonLoads(args_str) IN
         CASE parsed = "ok" -> [raised |-> FALSE, args |-> args_str]
           [] parsed = "too_deep" -> [raised |-> TRUE, args |-> None]
           [] OTHER ->
                 LET args == TryFixJson(args_str)
                 IN  [raised |-> FALSE, args |-> IF Truthy(args) THEN args ELSE "{}"]

\* The arguments strings of the tool calls one stream accumulates: one
\* call, or two of which one has well-formed arguments.
RawCalls ==
    {<<a>> : a \in ArgStrings}
        \cup {<<a, "{v}">> : a \in ArgStrings}
        \cup {<<"{v}", a>> : a \in ArgStrings}

\* Lines 332-466: the stream is read to its end, or an exception (a
\* timeout) ends the attempt, which lines 499-531 turn into an error.
WireStream ==
    /\ wire.pc = "sent"
    /\ \/ \E raw \in RawCalls : wire' = [wire EXCEPT !.pc = "streamed", !.raw = raw]
       \/ wire' = [wire EXCEPT
                      !.pc = "done",
                      !.response = [status |-> "error", tool_calls |-> <<>>]]
    /\ UNCHANGED <<actions, context, stack, proc, input, runs, uuid_ctr, chats,
                   frames, last_ret, writers, issued, client, agent_name, builder>>

\* Lines 468-497: the tool calls are built from what was accumulated and
\* the response is returned; an exception on the way is caught at line 499.
WireFinish ==
    /\ wire.pc = "streamed"
    /\ LET parsed == [i \in 1..Len(wire.raw) |-> ParseArguments(wire.raw[i])]
       IN  wire' = [wire EXCEPT
                      !.pc = "done",
                      !.response =
                          IF \E i \in 1..Len(parsed) : parsed[i].raised
                          THEN [status |-> "error", tool_calls |-> <<>>]
                          ELSE [status |-> "success",
                                tool_calls |->
                                    [i \in 1..Len(parsed) |->
                                        [index |-> i, arguments |-> parsed[i].args]]]]
    /\ UNCHANGED <<actions, context, stack, proc, input, runs, uuid_ctr, chats,
                   frames, last_ret, writers, issued, client, agent_name, builder>>

\* The caller has the response.
WireReturn ==
    /\ wire.pc = "done"
    /\ wire' = IdleWire
    /\ UNCHANGED <<actions, context, stack, proc, input, runs, uuid_ctr, chats,
                   frames, last_ret, writers, issued, client, agent_name, builder>>

NextWire ==
    \/ WireSend
    \/ WireStream
    \/ WireFinish
    \/ WireReturn

SpecWire == Init /\ [][NextWire]_vars

\* ------------------------------------------------------------------ call tree
\* _build_structured_call_info renders current.hierarchy as a tree, for
\* every hierarchy over three agent ids: children lists with cycles, with a
\* child under two parents, with agents named judge_agent, with ids that
\* have no agents_status row.

\* The agent ids, in the order the hierarchy dictionary lists them.
TreeOrder == <<"a1", "a2", "a3">>

TreeIds == {TreeOrder[i] : i \in 1..Len(TreeOrder)}

\* The longest children list of a hierarchy row.
MaxChildren == 2

JudgeName == "judge_agent"

\* agent_name of an id without a row in agents_status.
NoRow == ""

AgentNames == {JudgeName, SubName, NoRow}

\* The node a root of the rendering hangs under.
NoNode == ""

ChildLists ==
    {q \in UNION {[1..n -> TreeIds] : n \in 0..MaxChildren} :
        \A i, j \in 1..Len(q) : i # j => q[i] # q[j]}

\* Lines 318-321: the ids of a set in the order of the dictionary.
InOrder(ids) == SelectSeq(TreeOrder, LAMBDA a : a \in ids)

\* The visited set handed on along the path only, not from one child to
\* the next.
CarryPath(after, before) == [after EXCEPT !.visited = before.visited]

\* Lines 470-474: visited is one set, shared by all the recursive calls.
Carry(after, before) == after

RECURSIVE BuildAgentTreeJson(_, _, _, _, _)
RECURSIVE BuildChildren(_, _, _, _, _, _)

\* _build_agent_tree_json, lines 415-486, for agent_id handed the tree
\* built so far: nothing for an id already visited, without a row, or
\* named judge_agent; otherwise its node, and under it the nodes of its
\* children.
BuildAgentTreeJson(agent_id, under, hierarchy, names, st) ==
    LET called == [st EXCEPT !.calls = @ + 1] IN
    IF agent_id \in st.visited THEN called
    ELSE LET seen == [called EXCEPT !.visited = @ \cup {agent_id}] IN
         IF names[agent_id] = NoRow THEN seen
         ELSE IF names[agent_id] = JudgeName THEN seen
         ELSE BuildChildren(hierarchy[agent_id], 1, agent_id, hierarchy, names,
                            [seen EXCEPT !.nodes =
                                Append(@, [agent_id |-> agent_id, under |-> under])])

\* Lines 466-483: the loop over the children of agent_id, from child i on.
BuildChildren(children, i, agent_id, hierarchy, names, st) ==
    IF i > Len(children) THEN st
    ELSE BuildChildren(children, i + 1, agent_id, hierarchy, names,
                       Carry(BuildAgentTreeJson(children[i], agent_id, hierarchy,
                                                names, st), st))

\* Lines 327-335: the loop over the root agents, from root i on.
RECURSIVE BuildRoots(_, _, _, _, _)
BuildRoots(roots, i, hierarchy, names, st) ==
    IF i > Len(roots) THEN st
    ELSE BuildRoots(roots, i + 1, hierarchy, names,
                    BuildAgentTreeJson(roots[i], NoNode, hierarchy, names, st))

\* The Task Context the tree is rendered from: the children lists, the
\* names of the rows and the agents without a parent.
Loaded(hierarchy, names, roots) ==
    [IdleBuilder EXCEPT !.pc = "loaded", !.hierarchy = hierarchy,
                        !.agent_name = names, !.roots = roots]

InitTree ==
    /\ actions = EmptyMap
    /\ context = EmptyContext
    /\ stack = <<>>
    /\ proc = "idle"
    /\ input = ""
    /\ runs = 0
    /\ uuid_ctr = 0
    /\ chats = 0
    /\ frames = <<>>
    /\ last_ret = NoReturn
    /\ writers = EmptyMap
    /\ issued = NoneIssued
    /\ client = IdleClient
    /\ agent_name = ""
    /\ wire = IdleWire
    /\ \E h \in [TreeIds -> ChildLists], n \in [TreeIds -> AgentNames],
          r \in SUBSET TreeIds :
          builder = Loaded(h, n, r)

\* _build_structured_call_info, lines 318-335: the call tree is built from
\* the root agents.
BuildCallTree ==
    /\ builder.pc = "loaded"
    /\ LET st == BuildRoots(InOrder(builder.roots), 1, builder.hierarchy,
                            builder.agent_name, builder)
       IN  builder' = [st EXCEPT !.pc = "built"]
    /\ UNCHANGED <<actions, context, stack, proc, input, runs, uuid_ctr, chats,
                   frames, last_ret, writers, issued, client, agent_name, wire>>

NextTree == BuildCallTree

SpecTree == InitTree /\ [][NextTree]_vars

\* ------------------------------------------------------------------ prompt

\* Calls of build_context and of clean_before_start in one behaviour.
MaxBuilds == 3
MaxCleans == 1

\* context_builder.py line 184, and line 342 twice.
HistoryLimit == 5000
AgentLimit == 10
JsonLimit == 8000

\* The agents a prompt is built for.
Viewers == {RootName, SubName}

\* Line 312: the key of the digest cached for one viewing agent.
CallInfoKey(current_agent_id) == "_compressed_structured_call_info_" \o current_agent_id

PromptKeys == {HistoryDigestKey} \cup {CallInfoKey(a) : a \in Viewers}

\* What the compressor model answers with status success, and a call of
\* chat() that raises after its retries (llm_client.py lines 245-248).
DigestTexts == {"", "digest"}
Raised == "raised"
CompressorAnswers == DigestTexts \cup {Raised}

\* `if compressed_history:` and `if compressed_call_info:` (lines 179, 314):
\* the value under the key is there and not empty.
CachedText(value) == value # None /\ value # ""

\* Lines 175, 185 and 309, 356: what is returned without a digest.
NoHistoryText == "(no history)"
RawHistory == "str(history)"
NoCallsText == "(no calls)"
RawTree(current_agent_id) == "call tree of " \o current_agent_id

\* _build_user_agent_history, lines 157-201.  current is what the keys of
\* context.current hold, size is len(str(history)), answer is what the
\* compressor gives if it is asked; the result tells the text returned, the
\* keys as saved, the key read and whether the compressor was asked.
BuildUserAgentHistory(current, has_history, size, answer) ==
    LET quiet == [text |-> "", current |-> current, read |-> None,
                  asked |-> FALSE, raised |-> FALSE]
    IN  IF ~has_history THEN [quiet EXCEPT !.text = NoHistoryText]
        ELSE IF CachedText(current[HistoryDigestKey])
        THEN [quiet EXCEPT !.text = current[HistoryDigestKey],
                           !.read = HistoryDigestKey]
        ELSE IF size < HistoryLimit THEN [quiet EXCEPT !.text = RawHistory]
        ELSE IF answer = Raised
        THEN [quiet EXCEPT !.asked = TRUE, !.raised = TRUE]
        ELSE [quiet EXCEPT !.text = answer, !.asked = TRUE,
                           !.current = [current EXCEPT ![HistoryDigestKey] = answer]]

\* _build_structured_call_info, lines 299-356.  current is the snapshot
\* build_context took (line 54), saved is what the keys hold when the
\* digest is saved (lines 350-352 read the context again).
BuildStructuredCallInfo(current, saved, current_agent_id, has_agents, agent_count, json_len, answer) ==
    LET cache_key == CallInfoKey(current_agent_id)
        quiet == [text |-> "", current |-> saved, read |-> None,
                  asked |-> FALSE, raised |-> FALSE]
    IN  IF ~has_agents THEN [quiet EXCEPT !.text = NoCallsText]
        ELSE IF CachedText(current[cache_key])
        THEN [quiet EXCEPT !.text = current[cache_key], !.read = cache_key]
        ELSE IF agent_count > AgentLimit \/ json_len > JsonLimit
        THEN IF answer = Raised
             THEN [quiet EXCEPT !.asked = TRUE, !.raised = TRUE]
             ELSE [quiet EXCEPT !.text = answer, !.asked = TRUE,
                                !.current = [saved EXCEPT ![cache_key] = answer]]
        ELSE [quiet EXCEPT !.text = RawTree(current_agent_id)]

\* The keys of context.current that hold a digest.
CachedKeys(current) == {k \in DOMAIN current : current[k] # None}

NoPrompt == [user_agent_history |-> "", structured_call_info |-> ""]

\* The task whose prompts are built: "T1" with its root agent running, after
\* an interrupted task (history is not empty) or as the first task (history
\* is empty).
PromptContexts ==
    {WritersContext,
     push_agent_context(start_new_instruction(EmptyContext, "T1"), <<>>, WriterId)}

\* The sizes of the task's history and call tree, on both sides of the
\* limits; nothing is cached and no prompt has been built.
PromptInputs ==
    {[pc |-> "ready", history_len |-> h, agent_count |-> n, json_len |-> j,
      current |-> [k \in PromptKeys |-> None],
      before |-> [k \in PromptKeys |-> None],
      viewer |-> "", asked |-> {}, read |-> {}, prompt |-> NoPrompt,
      sent |-> [k \in PromptKeys |-> 0], builds |-> 0, cleans |-> 0] :
        h \in {HistoryLimit - 1, HistoryLimit},
        n \in {AgentLimit, AgentLimit + 1},
        j \in {JsonLimit, JsonLimit + 1}}

InitPrompt ==
    /\ actions = EmptyMap
    /\ context \in PromptContexts
    /\ stack = <<WriterId>>
    /\ proc = "run"
    /\ input = "T1"
    /\ runs = 1
    /\ uuid_ctr = 0
    /\ chats = 0
    /\ frames = <<>>
    /\ last_ret = NoReturn
    /\ writers = EmptyMap
    /\ issued = NoneIssued
    /\ client = IdleClient
    /\ agent_name = ""
    /\ wire = IdleWire
    /\ builder \in PromptInputs

PromptIdle ==
    UNCHANGED <<actions, proc, runs, uuid_ctr, chats, frames, last_ret,
                writers, issued, client, agent_name, wire>>

\* build_context, lines 40-105, for the viewing agent: the history part,
\* then the call-info part; an exception of the first leaves the second
\* undone.  before, asked, read and sent are bookkeeping.
BuildContext(viewer, history_answer, info_answer) ==
    /\ builder.pc # "idle"
    /\ builder.builds < MaxBuilds
    /\ LET h == BuildUserAgentHistory(builder.current, context.history # <<>>,
                                      builder.history_len, history_answer)
           i == BuildStructuredCallInfo(builder.current, h.current, viewer,
                                        DOMAIN context.agents_status # {},
                                        builder.agent_count, builder.json_len,
                                        info_answer)
           done == IF h.raised THEN h ELSE i
           asked == (IF h.asked THEN {HistoryDigestKey} ELSE {})
                       \cup (IF ~h.raised /\ i.asked THEN {CallInfoKey(viewer)} ELSE {})
       IN  /\ builder' =
                 [builder EXCEPT
                    !.pc = IF done.raised THEN "raised" ELSE "prompted",
                    !.current = done.current,
                    !.before = builder.current,
                    !.viewer = viewer,
                    !.asked = asked,
                    !.read = ({h.read} \cup (IF h.raised THEN {} ELSE {i.read})) \ {None},
                    !.prompt = IF done.raised THEN NoPrompt
                               ELSE [user_agent_history |-> h.text,
                                     structured_call_info |-> i.text],
                    !.sent = [k \in PromptKeys |-> @[k] + (IF k \in asked THEN 1 ELSE 0)],
                    !.builds = @ + 1]
           /\ context' = [context EXCEPT !.caches = CachedKeys(done.current)]
    /\ UNCHANGED <<stack, input>>
    /\ PromptIdle

\* start.py around a restart of the driver: clean_before_start for the new
\* input, the instruction is registered and the root agent pushed.  A new
\* task drops the digests (state_cleaner.py lines 150-161); sent counts the
\* compressor calls of one task.
PromptClean(new_user_input) ==
    /\ builder.pc # "idle"
    /\ builder.cleans < MaxCleans
    /\ LET same == IsSameTask(context, new_user_input)
           cleaned == CleanedState(context, stack, new_user_input)
           id == AgentId(RootName, TaskInput(new_user_input, 0))
       IN  /\ context' = push_agent_context(
                             start_new_instruction(cleaned.context, new_user_input),
                             cleaned.stack, id)
           /\ stack' = Append(cleaned.stack, id)
           /\ input' = new_user_input
           /\ builder' =
                 [builder EXCEPT
                    !.pc = "ready",
                    !.current = [k \in PromptKeys |->
                                    IF k \in cleaned.context.caches THEN @[k] ELSE None],
                    !.sent = IF same THEN @ ELSE [k \in PromptKeys |-> 0],
                    !.cleans = @ + 1]
    /\ PromptIdle

NextPrompt ==
    \/ \E viewer \in Viewers, history_answer, info_answer \in CompressorAnswers :
          BuildContext(viewer, history_answer, info_answer)
    \/ \E u \in UserInputs : PromptClean(u)

SpecPrompt == InitPrompt /\ [][NextPrompt]_vars

\* ------------------------------------------------------------------ properties

IsPrefix(s, t) == Len(s) <= Len(t) /\ SubSeq(t, 1, Len(s)) = s

Frames == {frames[i] : i \in 1..Len(frames)}

\* The actions files a restart can parse.
Checkpoints == {a \in DOMAIN actions : actions[a].valid}

\* C1: from one checkpoint of an agent to the next one written over it, the
\* earlier fact history on disk is a prefix of the later one.
C1_FactAppendOnly ==
    [][\A a \in Checkpoints :
          (a \in DOMAIN actions' /\ actions'[a].valid)
          => IsPrefix(actions[a].action_history_fact,
                      actions'[a].action_history_fact)]_vars

\* C2: a run that finds a final_output in the persisted fact history does
\* not go past the checkpoint load; it returns the result of the first
\* persisted final_output without having made any LLM call.
C2_ReentryReturnsPersisted ==
    /\ \A f \in Frames : f.loaded_final => f.pc = "start"
    /\ last_ret.path = "already_done"
       => /\ last_ret.llm = 0
          /\ last_ret.id \in Checkpoints
          /\ LET fact == actions[last_ret.id].action_history_fact IN
             \E i \in 1..Len(fact) :
                /\ fact[i].tool_name = "final_output"
                /\ \A j \in 1..(i - 1) : fact[j].tool_name # "final_output"
                /\ last_ret.result = fact[i].result

\* C2 (witness): the root agent has completed with a final_output and a
\* later invocation of the driver has got that result back at the load.
C2_Witness ==
    /\ proc = "exited"
    /\ runs >= 2
    /\ last_ret.path = "already_done"
    /\ last_ret.id.name = RootName
    /\ last_ret.result = ToolResult("success", "done")

\* C3: a root run resumed with a pending final_output re-executes it
\* exactly once and returns what the run without the crash returned: the
\* result of that final_output.
C3_ResumeEqualsBaseline ==
    (/\ last_ret.id.name = RootName
     /\ Len(last_ret.resumed) = 1
     /\ last_ret.resumed[1].name = "final_output")
    => /\ last_ret.recovered = last_ret.resumed
       /\ last_ret.result = ToolResult("success", last_ret.resumed[1].arguments[1])

\* C4: a run that has re-executed a pending final_output has ended: it is
\* not in the turn loop and has made no LLM call.
C4_PendingFinalTerminates ==
    \A f \in Frames :
        (\E i \in 1..Len(f.recovered) : f.recovered[i].name = "final_output")
        => f.llm = 0 /\ f.pc \notin {"chat", "call", "exec", "wait", "post", "replan"}

\* C5: when a resumed run is about to make its first LLM call (the initial
\* plan or a turn decision), it has re-executed every loaded pending tool,
\* in the saved order, and its pending_tools is empty.
C5_PendingBeforeLlm ==
    \A f \in Frames :
        (f.llm = 0 /\ f.pc \in {"plan", "turn", "chat"})
        => f.pending_tools = <<>> /\ f.recovered = f.resumed

\* C5 (witness): a run resumed with a pending tool is about to ask the LLM
\* for its first turn decision.
C5_Witness ==
    \E f \in Frames : f.resumed # <<>> /\ f.pc = "chat" /\ f.llm = 0

\* C6: every agent of the persisted stack is running in agents_status and
\* the parent of every frame is the frame below it (null for the first).
C6_StackIsRunningPath ==
    \A i \in 1..Len(stack) :
        /\ stack[i] \in DOMAIN context.agents_status
        /\ context.agents_status[stack[i]].status = "running"
        /\ HierarchyRow(context.hierarchy, stack[i]).parent
              = IF i = 1 THEN NoAgent ELSE stack[i - 1]

\* C7: every completed agent, in current and in history[], has a
\* non-empty final_output.
C7_CompletedHasOutput ==
    /\ \A a \in DOMAIN context.agents_status :
          context.agents_status[a].status = "completed"
          => context.agents_status[a].final_output # ""
    /\ \A i \in 1..Len(context.history) :
          \A a \in DOMAIN context.history[i].agents_status :
              context.history[i].agents_status[a].status = "completed"
              => context.history[i].agents_status[a].final_output # ""

\* C8: no record follows a final_output record in a persisted fact history.
C8_NothingAfterFinal ==
    \A a \in Checkpoints :
        LET fact == actions[a].action_history_fact IN
        \A i \in 1..Len(fact) :
            fact[i].tool_name = "final_output" => i = Len(fact)

\* C9: every actions file on disk is a complete checkpoint.
C9_CheckpointsComplete ==
    \A a \in DOMAIN actions : actions[a].valid

\* C10: with two writers on one task, nothing a writer has saved is lost to
\* the other writer's save: every record a writer has executed is in the fact
\* history on disk, the Task Context holds the thinking stored last, and
\* every digest saved is in the Task Context.
C10_NoLostUpdate ==
    /\ \A r \in issued.records :
            /\ HasCheckpoint(WriterId)
            /\ InSeq(r, actions[WriterId].action_history_fact)
    /\ issued.thinking # "" =>
            context.agents_status[WriterId].latest_thinking = issued.thinking
    /\ issued.digests \subseteq context.caches

\* C11: a checkpoint is written with pending_tools not empty only by the
\* save that precedes the execution of a tool call, and then it holds that
\* call alone; at every other save (the initial plan, the start of a turn, a
\* response without tool calls, the return of a tool call, the re-plan) the
\* pending_tools written are empty.
C11_PendingOnlyAroundCall ==
    [][/\ (Running /\ Top.pc \in {"plan", "turn", "chat", "replan"})
            => Top.pending_tools = <<>>
       /\ \A a \in DOMAIN actions' :
            (/\ actions'[a].valid
             /\ a \in DOMAIN actions => actions'[a] # actions[a])
            => \/ actions'[a].pending_tools = <<>>
               \/ /\ Running
                  /\ Top.pc = "call"
                  /\ a = Top.id
                  /\ actions'[a].pending_tools = <<frames'[Len(frames')].cur>>]_vars

\* C11 (witness): a tool call has returned and the checkpoint written after
\* it holds its record and no pending tool.
C11_Witness ==
    \E f \in Frames :
        /\ f.pc \in {"turn", "replan", "call"}
        /\ f.tool_call_counter >= 1
        /\ HasCheckpoint(f.id)
        /\ actions[f.id].pending_tools = <<>>
        /\ actions[f.id].action_history_fact # <<>>

\* C13 (as stated): at the end of a turn whose tool calls left
\* tool_call_counter a multiple of the interval, the Thinking service is
\* called, latest_thinking becomes its result, the render history is empty
\* when the next turn starts and the fact history is as before.
C13_ReplanResetsRender ==
    [][(Running /\ Top.pc = "replan" /\ Len(frames') = Len(frames))
       => LET f == Top
              g == frames'[Len(frames')]
          IN  /\ f.tool_call_counter % thinking_interval = 0
              /\ g.llm = f.llm + 1
              /\ g.latest_thinking = g.thinking_result
              /\ g.action_history = <<>>
              /\ g.action_history_fact = f.action_history_fact]_vars

\* C13 (amended): the Thinking service is called at the end of every turn
\* whose tool calls left tool_call_counter a multiple of the interval, and
\* of no other; when it gives a plan, latest_thinking becomes that plan and
\* the render history is empty when the next turn starts; when it gives
\* none, latest_thinking and the render history stay as they are; the fact
\* history is as before in both cases.
C13_ReplanResetsRenderOnPlan ==
    [][/\ (Running /\ Top.pc = "replan" /\ Len(frames') = Len(frames))
          => LET f == Top
                 g == frames'[Len(frames')]
             IN  /\ f.tool_call_counter % thinking_interval = 0
                 /\ g.llm = f.llm + 1
                 /\ g.pc = "turn"
                 /\ g.action_history_fact = f.action_history_fact
                 /\ IF g.thinking_result # ""
                    THEN /\ g.latest_thinking = g.thinking_result
                         /\ g.action_history = <<>>
                    ELSE /\ g.latest_thinking = f.latest_thinking
                         /\ g.action_history = f.action_history
       /\ (Running /\ Top.pc \in {"exec", "post"} /\ Len(frames') = Len(frames))
          => LET g == frames'[Len(frames')]
             IN  /\ g.pc = "replan"
                    => g.calls = <<>> /\ g.tool_call_counter % thinking_interval = 0
                 /\ g.pc = "turn"
                    => g.tool_call_counter % thinking_interval # 0]_vars

\* C13 (witness): a re-plan has given a plan; the next turn is about to
\* start with an empty render history and the fact history kept.
C13_Witness ==
    \E f \in Frames :
        /\ f.pc = "turn"
        /\ f.thinking_result = "replan"
        /\ f.latest_thinking = "replan"
        /\ f.action_history = <<>>
        /\ f.action_history_fact # <<>>

\* C15: a run that an exception has ended has returned an error result to
\* its caller and its agent is no longer on the stack.
C15_ExceptionsPopAndReturn ==
    last_ret.path \in {"exception", "uncaught"}
    => /\ last_ret.path = "exception"
       /\ last_ret.result.status = "error"
       /\ \A i \in 1..Len(stack) : stack[i] # last_ret.id

\* C12: a response without a tool call that comes after fewer than 5 such
\* responses in a row appends one _no_tool_call record to the render history
\* (the fact history stays) and the loop goes on with the next turn; a
\* response with tool calls sets the count back to zero; the agent is given
\* up as refusing only after 5 such responses in a row, with one more LLM
\* call and one Thinking call, an error result, and the agent popped and
\* completed.
C12_NoToolBackoff ==
    [][(Running /\ Top.pc = "chat")
       => LET f == Top IN
          /\ (Len(frames') = Len(frames) /\ frames'[Len(frames')].pc = "turn")
             => LET g == frames'[Len(frames')] IN
                /\ f.max_tool_try < 5
                /\ g.max_tool_try = f.max_tool_try + 1
                /\ \E h \in Compressed(f.action_history) :
                        g.action_history = Append(h, NoToolRecord)
                /\ g.action_history_fact = f.action_history_fact
                /\ g.turn = f.turn + 1
          /\ (Len(frames') = Len(frames) /\ frames'[Len(frames')].pc = "call")
             => frames'[Len(frames')].max_tool_try = 0
          /\ (last_ret' # last_ret /\ last_ret'.path = "refused")
             => /\ f.max_tool_try = 5
                /\ last_ret'.id = f.id
                /\ last_ret'.llm = f.llm + 2
                /\ last_ret'.result.status = "error"
                /\ stack # <<>> /\ stack' = SubSeq(stack, 1, Len(stack) - 1)
                /\ context'.agents_status[f.id].status = "completed"]_vars

\* C12 (witness): the root agent has completed with a final_output after 5
\* responses without a tool call; its checkpoint holds the 5 _no_tool_call
\* records and the final_output record in the render history.
C12_Witness ==
    /\ proc = "exited"
    /\ last_ret.path = "final_output"
    /\ last_ret.result = ToolResult("success", "done")
    /\ HasCheckpoint(last_ret.id)
    /\ LET h == actions[last_ret.id].action_history IN
       /\ Len(h) = 6
       /\ \A i \in 1..5 : h[i] = NoToolRecord
       /\ h[6].tool_name = "final_output"
    /\ context.agents_status[last_ret.id].status = "completed"

\* C14: when chat() has ended with none of its attempts successful, it has
\* raised; the executor has caught the exception, popped the agent and
\* returned an error result whose output carries latest_thinking.
C14_ExhaustedChatRaises ==
    client.pc = "delivered" /\ client.outcome # "success"
    => /\ client.outcome = "raised"
       /\ last_ret.id = client.caller
       /\ last_ret.path = "exception"
       /\ last_ret.result = ToolResult("error", ErrorOutput(client.latest_thinking))
       /\ \A i \in 1..Len(stack) : stack[i] # client.caller

\* C16: chat() is never left waiting for a worker that does not return: once
\* first_chunk_timeout has expired the attempt is over.
C16_DeadlineEndsAttempt ==
    client.pc = "shutdown" => client.worker # "stuck"

StartsWith(text, prefix) ==
    Len(text) >= Len(prefix) /\ SubSeq(text, 1, Len(prefix)) = prefix

\* The step of clean_before_start that saves the Task Context, in new-task
\* mode and in same-task mode.
NewTaskClean ==
    proc = "clean" /\ proc' = "save_stack" /\ ~IsSameTask(context, input)

SameTaskClean ==
    proc = "clean" /\ proc' = "save_stack" /\ IsSameTask(context, input)

\* The history[] entries a step has added.
NewEntries == {context'.history[i] : i \in (Len(context.history) + 1)..Len(context'.history)}

\* C17: a clean in new-task mode puts every running root of current into
\* a new history[] entry together with the instructions, marked completed
\* and with a final_output that begins with the archive marker; one running
\* root makes history[] one entry longer.
C17_EveryRunningRootArchived ==
    [][NewTaskClean =>
        /\ \A a \in TopRunning(context) :
              \E e \in NewEntries :
                 /\ e.instructions = context.instructions
                 /\ a \in DOMAIN e.agents_status
                 /\ e.agents_status[a].status = "completed"
                 /\ StartsWith(e.agents_status[a].final_output, ArchiveMarker)
        /\ Cardinality(TopRunning(context)) = 1
              => Len(context'.history) = Len(context.history) + 1]_vars

\* The agents of ctx below agent a: those whose chain of parents leads to a.
RECURSIVE Below(_, _, _)
Below(ctx, a, depth) ==
    IF depth = 0 THEN {}
    ELSE LET kids == {k \in DOMAIN ctx.hierarchy : ctx.hierarchy[k].parent = a}
         IN  kids \cup UNION {Below(ctx, k, depth - 1) : k \in kids}

Descendants(ctx, a) == Below(ctx, a, Cardinality(DOMAIN ctx.hierarchy))

\* C18: the history[] entry made of a running root holds the rows of every
\* completed descendant of the root, and every child id its hierarchy lists
\* is an agent of the entry.
C18_EntryHoldsSubtree ==
    [][NewTaskClean =>
        \A e \in NewEntries :
            /\ \A a \in TopRunning(context) \cap DOMAIN e.agents_status :
                  \A d \in Descendants(context, a) \cap CompletedAgents(context) :
                      d \in DOMAIN e.agents_status /\ d \in DOMAIN e.hierarchy
            /\ \A a \in DOMAIN e.hierarchy :
                  \A i \in 1..Len(e.hierarchy[a].children) :
                      e.hierarchy[a].children[i] \in DOMAIN e.agents_status]_vars

\* C19: a clean in new-task mode of a context that has agents leaves
\* current without agents, hierarchy, instructions and cached digests, and a
\* running agent that was not archived as a root is in no entry it added;
\* the write of the stack that follows leaves the persisted stack empty.
C19_NewTaskCleanEmptiesCurrent ==
    [][/\ NewTaskClean =>
            /\ context'.agents_status = EmptyMap
            /\ context'.hierarchy = EmptyMap
            /\ context'.instructions = <<>>
            /\ context'.caches \cap {HistoryDigestKey, CallInfoDigestKey} = {}
            /\ \A a \in RunningAgents(context), e \in NewEntries :
                  a \in DOMAIN e.agents_status \cup DOMAIN e.hierarchy
                  => /\ a \in TopRunning(context)
                     /\ e.agents_status[a].status = "completed"
                     /\ StartsWith(e.agents_status[a].final_output, ArchiveMarker)
       /\ proc = "save_stack" /\ proc' = "register" => stack' = <<>>]_vars

\* C19 (witness): a new-task clean has saved the Task Context and the stack
\* after it: current is empty, the entry it added shows a running child
\* that was dropped, the stack is empty.
C19_Witness ==
    /\ proc = "register"
    /\ stack = <<>>
    /\ context.agents_status = EmptyMap
    /\ context.instructions = <<>>
    /\ context.history # <<>>
    /\ LET e == context.history[Len(context.history)] IN
       \E a \in DOMAIN e.hierarchy :
           \E i \in 1..Len(e.hierarchy[a].children) :
               e.hierarchy[a].children[i] \notin DOMAIN e.agents_status

\* C20: a clean in same-task mode saves the Task Context as it was: agent
\* rows, hierarchy, instructions, history[] and cached digests; the write of
\* the stack that follows leaves the persisted stack empty.
C20_SameTaskCleanKeepsContext ==
    [][/\ SameTaskClean => context' = context
       /\ proc = "save_stack" /\ proc' = "register" => stack' = <<>>]_vars

\* C21: for the persisted Task Context and stack of any reachable state and
\* any input, clean_before_start applied twice leaves what it leaves
\* applied once.
C21_CleanIdempotent ==
    \A x \in UserInputs \cup {""} :
        LET once == CleanedState(context, stack, x)
        IN  CleanedState(once.context, once.stack, x) = once

\* C21 (witness): the driver is about to clean a task whose running root a
\* new input will archive: the clean changes the Task Context and the stack.
C21_Witness ==
    /\ proc = "clean"
    /\ ~IsSameTask(context, input)
    /\ TopRunning(context) # {}
    /\ stack # <<>>
    /\ LET once == CleanedState(context, stack, input)
       IN  /\ Len(once.context.history) = Len(context.history) + 1
           /\ once.stack = <<>>

\* The arguments of a call or record carry a suffix exactly when the tool is
\* an agent of a level other than 0.
SuffixRule(name, arguments) ==
    IF ToolType(name) = "llm_call_agent" /\ ToolLevel(name) # 0
    THEN arguments[2] # 0
    ELSE arguments[2] = 0

\* The records of history whose tool is an agent of a level other than 0.
AgentCalls(history) ==
    {i \in 1..Len(history) :
        /\ ToolType(history[i].tool_name) = "llm_call_agent"
        /\ ToolLevel(history[i].tool_name) # 0}

ExternalCallDue ==
    /\ Running
    /\ Top.pc = "exec"
    /\ ToolType(Top.cur.name) = "tool_call_agent"
    /\ Top.cur.name # "final_output"

\* C23: a step of an agent that is about to execute an external tool call
\* either ends the process or sends one execute request and appends one
\* record of that call to both histories; when the tool server has failed
\* the call, the record has status error, no output and the error text,
\* the agent is not popped, its status and the stack stay as they are, and
\* it goes on with its next call, re-plan or turn.
C23_ToolFailureRecordedOnce ==
    [][ExternalCallDue =>
          \/ proc' = "dead"
          \/ LET f == Top
                 g == frames'[Len(frames)]
                 rec == g.action_history_fact[Len(g.action_history_fact)]
             IN  /\ Len(frames') = Len(frames)
                 /\ g.id = f.id
                 /\ g.posts = 1
                 /\ rec.tool_name = f.cur.name
                 /\ rec.arguments = f.cur.arguments
                 /\ g.action_history_fact = Append(f.action_history_fact, rec)
                 /\ g.action_history = Append(f.action_history, rec)
                 /\ ~InSeq(f.cur, g.pending_tools)
                 /\ rec.result.status \in {"success", "error"}
                 /\ rec.result.status = "error" =>
                       /\ rec.result.output = ""
                       /\ rec.result.error_information # ""
                       /\ g.pc \in {"call", "replan", "turn"}
                       /\ stack' = stack
                       /\ context' = context
                       /\ last_ret' = last_ret
                       /\ actions'[f.id].action_history_fact = g.action_history_fact
      ]_vars

\* C23 (witness): an agent has gone on to a later turn with the record of
\* an external tool call that failed in transport, made with one request.
C23_Witness ==
    \E f \in Frames :
        /\ f.pc \in {"turn", "replan", "call"}
        /\ f.posts = 1
        /\ f.action_history # <<>>
        /\ LET rec == f.action_history[Len(f.action_history)]
           IN  /\ rec.tool_name = "ext_tool"
               /\ rec.result = ToolError("call_failed")
               /\ rec = f.action_history_fact[Len(f.action_history_fact)]


\* C24: a request of a call with tool_choice none has neither tools nor
\* tool_choice, whatever tool list was passed, and no request has
\* tool_choice without tools.
C24_NoneOmitsTools ==
    wire.pc # "idle" =>
        /\ wire.tool_choice = "none" =>
              "tools" \notin wire.keys /\ "tool_choice" \notin wire.keys
        /\ "tool_choice" \in wire.keys => "tools" \in wire.keys


\* Lines 468-472 and 542-560: the arguments string is neither well-formed
\* JSON nor made so by the repair.
Unparseable(args_str) ==
    /\ args_str # ""
    /\ JsonLoads(args_str) # "ok"
    /\ LET args == TryFixJson(args_str) IN args = None

\* C30: when the stream has ended and a tool call's arguments string is
\* neither valid JSON nor repaired, the response has status success and
\* every accumulated tool call, in order, the unparseable ones with
\* arguments {}.
C30_ParseFailureKeepsAttempt ==
    wire.pc = "done" /\ wire.raw # <<>>
        /\ (\E i \in 1..Len(wire.raw) : Unparseable(wire.raw[i])) =>
        /\ wire.response.status = "success"
        /\ Len(wire.response.tool_calls) = Len(wire.raw)
        /\ \A i \in 1..Len(wire.raw) :
              /\ wire.response.tool_calls[i].index = i
              /\ Unparseable(wire.raw[i]) =>
                    wire.response.tool_calls[i].arguments = "{}"


\* The top agent is about to load an actions file that cannot be parsed.
MalformedLoadDue ==
    /\ Running
    /\ Top.pc = "start"
    /\ Top.id \in DOMAIN actions
    /\ ~actions[Top.id].valid

\* C25: a run() that finds an unparseable actions file goes on, unless the
\* process ends, exactly as a fresh agent does: nothing is loaded, both
\* histories and pending_tools are empty, the turn is 0, nothing is
\* returned or raised, and the initial plan comes next.
C25_MalformedLoadsAsAbsent ==
    [][MalformedLoadDue =>
          \/ proc' = "dead"
          \/ /\ proc' = "run"
             /\ last_ret' = last_ret
             /\ actions' = actions
             /\ frames' = WithTop([NewFrame(Top.id.name, Top.id.input)
                                      EXCEPT !.pc = "plan"])
             /\ LET g == frames'[Len(frames')]
                IN  /\ g.action_history = <<>>
                    /\ g.action_history_fact = <<>>
                    /\ g.pending_tools = <<>>
                    /\ g.turn = 0
                    /\ ~g.first_thinking_done
      ]_vars

\* C25 (witness): an agent whose actions file is unparseable has passed the
\* load and is about to make its initial plan.
C25_Witness ==
    /\ Running
    /\ Top.pc = "plan"
    /\ Top.id \in DOMAIN actions
    /\ ~actions[Top.id].valid
    /\ Top.turn = 0
    /\ Top.action_history_fact = <<>>


\* C26: when the driver has exited, its exit code is 130 after an
\* interrupt, 0 when run() returned a result with status success, and 1 in
\* every other case: an error result, an exception, a start agent that is
\* not an agent.
C26_ExitCodeTellsOutcome ==
    proc = "exited" =>
        last_ret.exit_code =
            IF last_ret.path = "interrupt" THEN 130
            ELSE IF /\ last_ret.path \notin {"uncaught", "not_an_agent"}
                    /\ last_ret.result.status = "success"
                 THEN 0
                 ELSE 1


\* The agents of the persisted hierarchy whose parent is a.
ChildrenOf(a) ==
    {b \in DOMAIN context.hierarchy : context.hierarchy[b].parent = a}

\* C27: in the persisted Task Context the children of every agent are
\* exactly the agents whose parent it is.
C27_ChildrenMirrorParents ==
    \A a \in DOMAIN context.hierarchy :
        {context.hierarchy[a].children[i] :
            i \in 1..Len(context.hierarchy[a].children)} = ChildrenOf(a)


\* C28: when the top agent has passed the checkpoint load and the recovery
\* of its pending tools and goes on in run(), the initial plan comes next
\* exactly when its first_thinking_done is false.
C28_PlanIffNotDone ==
    [][(/\ Running
        /\ Top.pc \in {"start", "recover", "recovered"}
        /\ Len(frames') = Len(frames)
        /\ frames'[Len(frames)].pc \in {"plan", "turn"})
       => (frames'[Len(frames)].pc = "plan"
              <=> ~frames'[Len(frames)].first_thinking_done)
      ]_vars


\* C29: in one call of chat() there are at most max_retries + 1 counted
\* attempts and at most one repair attempt, the repair leaves retry_count
\* as it is and starts without a sleep, the call ends at the first attempt
\* that succeeds, and after a failed repair the remaining counted attempts
\* are still made, each after its sleep.
C29_RepairOnceOutsideRetries ==
    /\ [](client.pc # "idle" =>
             /\ client.attempts <= max_retries + 1
             /\ client.repairs <= 1
             /\ client.repairs = 1 => client.type_fix_attempted
             /\ client.attempts \in {client.retry_count, client.retry_count + 1}
             /\ client.pc \in {"wait", "shutdown", "respond", "done", "delivered"} =>
                   client.attempts = client.retry_count + 1
             /\ client.fixing /\ client.pc = "attempt" => client.slept = 0)
    /\ [][client.pc = "respond" =>
             IF client.response = "success"
             THEN client'.pc = "done" /\ client'.outcome = "success"
             ELSE IF client.fixing
             THEN IF client.retry_count < max_retries
                  THEN /\ client'.pc = "attempt"
                       /\ ~client'.fixing
                       /\ client'.retry_count = client.retry_count + 1
                       /\ client'.slept = 2 * client'.retry_count
                  ELSE client'.pc = "done" /\ client'.outcome # "success"
             ELSE /\ client'.fixing =>
                        /\ client'.retry_count = client.retry_count
                        /\ ~client.type_fix_attempted
                  /\ client'.pc = "attempt" /\ ~client'.fixing =>
                        /\ client'.retry_count = client.retry_count + 1
                        /\ client'.slept = 2 * client'.retry_count
         ]_vars

\* C29 (witness): a call of chat() has ended after a repair attempt that
\* failed and max_retries + 1 counted attempts.
C29_Witness ==
    /\ client.pc = "done"
    /\ client.repairs = 1
    /\ client.attempts = max_retries + 1
    /\ client.outcome # "success"


\* The top executor is about to call the LLM: the initial plan, a turn
\* decision, or a periodic re-plan.
LlmCallDue == Running /\ Top.pc \in {"plan", "chat", "replan"}

\* C31: an executor that is about to call the LLM is the innermost one,
\* its agent is the top of the persisted stack, and no agent it has called
\* is above it there.
C31_CallerIsStackTop ==
    LlmCallDue =>
        /\ stack # <<>>
        /\ StackTop(stack) = Top.id
        /\ \A i \in 1..Len(frames) - 1 : frames[i].pc \in {"wait", "recover_wait"}


\* The ids of the nodes of the rendered tree.
NodeIds == {builder.nodes[i].agent_id : i \in 1..Len(builder.nodes)}

\* The ids in the children lists of the ids of a set.
ChildrenOfAll(ids) ==
    UNION {{builder.hierarchy[a][i] : i \in 1..Len(builder.hierarchy[a])} : a \in ids}

\* The ids reached from a over children links in one step or more.
RECURSIVE ReachedIn(_, _)
ReachedIn(ids, n) ==
    IF n = 0 THEN ids ELSE ReachedIn(ids \cup ChildrenOfAll(ids), n - 1)

TreeDescendants(a) == ReachedIn(ChildrenOfAll({a}), Len(TreeOrder))

\* The judge agents the rendering comes to: roots, and children of nodes.
JudgesMet ==
    {j \in builder.roots \cup ChildrenOfAll(NodeIds) : builder.agent_name[j] = JudgeName}

\* C32: the rendered tree has no node of an agent named judge_agent, and
\* every agent below such an agent that has a row and another name has a
\* node.
C32_JudgeSkippedChildrenKept ==
    builder.pc = "built" =>
        /\ \A a \in NodeIds : builder.agent_name[a] # JudgeName
        /\ \A j \in JudgesMet :
              \A d \in TreeDescendants(j) :
                  builder.agent_name[d] \notin {JudgeName, NoRow} => d \in NodeIds

\* C33: the rendering of every hierarchy ends, after at most one call per
\* root and per listed child of a node; no id has two nodes, every node
\* hangs under an earlier node that lists it or is a root, and an id that is
\* met again gets no node.
C33_TreeEndsWithoutRepeats ==
    builder.pc = "built" =>
        /\ \A i, j \in 1..Len(builder.nodes) :
              i # j => builder.nodes[i].agent_id # builder.nodes[j].agent_id
        /\ NodeIds \subseteq builder.visited
        /\ builder.visited \subseteq TreeIds
        /\ builder.calls
              = Cardinality(builder.roots)
                   + Cardinality({<<a, i>> \in NodeIds \X (1..MaxChildren) :
                                     i <= Len(builder.hierarchy[a])})
        /\ \A i \in 1..Len(builder.nodes) :
              LET n == builder.nodes[i] IN
              IF n.under = NoNode THEN n.agent_id \in builder.roots
              ELSE /\ \E k \in 1..(i - 1) : builder.nodes[k].agent_id = n.under
                   /\ n.agent_id \in ChildrenOfAll({n.under})

\* C33 (witness): a tree has been rendered from a hierarchy in which a node
\* is its own descendant and another agent is listed under two nodes.
C33_Witness ==
    /\ builder.pc = "built"
    /\ \E a \in NodeIds : a \in TreeDescendants(a)
    /\ \E a, b \in NodeIds, c \in NodeIds :
          a # b /\ c \in ChildrenOfAll({a}) /\ c \in ChildrenOfAll({b})

\* A prompt has been built for the viewing agent, call info included.
Prompted == builder.pc = "prompted"

\* C34: the call info is sent to the compressor for a viewing agent only
\* when nothing is cached under that agent's key and the agents are more
\* than 10 or the tree is longer than 8000 characters; when something is
\* cached under the key, the build returns it and the compressor is not
\* asked; what is cached under another agent's key is never returned.
C34_CallInfoDigestPerViewer ==
    Prompted =>
        LET cache_key == CallInfoKey(builder.viewer) IN
        /\ cache_key \in builder.asked =>
              /\ builder.before[cache_key] = None
              /\ builder.agent_count > AgentLimit \/ builder.json_len > JsonLimit
        /\ builder.before[cache_key] # None /\ DOMAIN context.agents_status # {} =>
              /\ cache_key \notin builder.asked
              /\ builder.prompt.structured_call_info = builder.before[cache_key]
        /\ \A b \in Viewers \ {builder.viewer} : CallInfoKey(b) \notin builder.read

\* C35: between two starts of a new task the user-agent history is sent to
\* the compressor at most once.
C35_HistoryCompressedOnce ==
    builder.pc \in {"ready", "prompted", "raised"} =>
        builder.sent[HistoryDigestKey] <= 1

\* C36: a call of build_context leaves the Task Context, the stack and the
\* histories of the executors as they are, and a call that finds what the
\* call before it found returns the prompt that call returned.
C36_BuildContextPure ==
    [][builder.pc # "idle" /\ builder'.builds = builder.builds + 1 =>
          /\ context' = context
          /\ stack' = stack
          /\ frames' = frames
          /\ builder.pc = "prompted" /\ builder'.pc = "prompted"
               /\ builder.before = builder.current
               /\ builder.viewer = builder'.viewer
               => builder'.prompt = builder.prompt]_vars

\* run() of the innermost executor returns a result to its caller in this
\* step (an exception that leaves run() is not a return).
RunReturns ==
    /\ Running
    /\ Len(frames') = Len(frames) - 1
    /\ proc' \in {"run", "exited"}
    /\ last_ret'.path \notin {"", "interrupt", "not_an_agent", "uncaught"}

\* C37: a run() that returns leaves the stack as it was before the call (the
\* agent pushed at entry is the top and is popped), and the agent of the
\* innermost executor is the top of the stack from its push on, so that no
\* pop meets another agent.
C37_RunRestoresStack ==
    [][/\ RunReturns =>
             IF Top.pc = "start" THEN stack' = stack
             ELSE /\ StackTop(stack) = Top.id
                  /\ stack' = SubSeq(stack, 1, Len(stack) - 1)
       /\ Running /\ Top.pc # "start" => stack # <<>> /\ StackTop(stack) = Top.id]_vars

\* The records the executor makes up for the render history.
Synthetic(record) == record.tool_name \in {"_no_tool_call", "_historical_summary"}

\* C38: no made-up record is in the fact history of a checkpoint on disk or
\* in the fact history an executor holds.
C38_FactHoldsExecutedCalls ==
    /\ \A a \in Checkpoints :
          \A i \in 1..Len(actions[a].action_history_fact) :
              ~Synthetic(actions[a].action_history_fact[i])
    /\ \A f \in Frames :
          \A i \in 1..Len(f.action_history_fact) :
              ~Synthetic(f.action_history_fact[i])

\* The innermost executor makes a periodic re-plan in this step and the
\* Thinking call gives a plan.
ReplansNow ==
    /\ Running
    /\ Top.pc = "replan"
    /\ Len(frames') = Len(frames)
    /\ frames'[Len(frames)].pc = "turn"
    /\ frames'[Len(frames)].thinking_result # ""

\* C39: the checkpoint a periodic re-plan leaves on disk has the new
\* latest_thinking and an empty render history, as the executor has them
\* after the re-plan.
C39_ReplanResetCheckpointed ==
    [][ReplansNow =>
          /\ Top.id \in DOMAIN actions' /\ actions'[Top.id].valid
          /\ actions'[Top.id].latest_thinking = frames'[Len(frames)].latest_thinking
          /\ actions'[Top.id].action_history = frames'[Len(frames)].action_history
          /\ actions'[Top.id].action_history = <<>>]_vars

============================================================================
